---- MODULE Spec2Model ----
(***************************************************************************)
(* Power-strap generation of hammer/vlsi/hammer_vlsi_impl.py (HammerTool): *)
(* the by-tracks strap builder (specify_all_power_straps_by_tracks), the   *)
(* track-to-geometry converter (specify_power_straps_by_tracks), the       *)
(* hard-macro recorder (_get_power_straps_for_hardmacros) and the          *)
(* aggregator (_dump_power_straps_for_hardmacros).                         *)
(*                                                                         *)
(* Decimal lengths are integers counted in 1/DbuScale of the stackup grid  *)
(* unit.  An Optional value is <<>> (None) or <<v>>.                       *)
(***************************************************************************)
EXTENDS Integers, Sequences, FiniteSets, TLC

\* ------------------------------------------------------------- bounds
MaxRuns == 2
MaxLayers == 2
MaxWeight == 2
MaxMacros == 2

\* ------------------------------------------------------------ helpers
None == <<>>
Some(v) == <<v>>
IsNone(o) == o = <<>>
Val(o) == o[1]
get_or_else(o, d) == IF IsNone(o) THEN d ELSE Val(o)

Range(s) == {s[k] : k \in DOMAIN s}

RECURSIVE SumSeq(_)
SumSeq(s) == IF s = <<>> THEN 0 ELSE Head(s) + SumSeq(Tail(s))

RECURSIVE Concat(_)
Concat(ss) == IF ss = <<>> THEN <<>> ELSE Head(ss) \o Concat(Tail(ss))

SeqsUpTo(S, n) == UNION {[1..k -> S] : k \in 0..n}

\* Decimal.__mod__: the result takes the sign of the dividend.
DecMod(a, p) == IF a < 0 THEN 0 - ((0 - a) % p) ELSE a % p

\* stackup.grid_unit, in model units.
DbuScale == 4

\* int(v / dbu): truncation towards zero.
ToDbu(v) == IF v < 0 THEN 0 - ((0 - v) \div DbuScale) ELSE v \div DbuScale

\* Python's lower() on the orientations that occur.
Lower(s) ==
    CASE s = "R0" -> "r0"
      [] s = "R90" -> "r90"
      [] s = "MX" -> "mx"
      [] s = "MY" -> "my"
      [] OTHER -> s

\* str(n) for the variant numbers.
Str(n) == ToString(n)

\* ------------------------------------------------------------ stackup
LayerNames == {"M1", "M2", "M3", "M4", "AP", "M6", "M7"}

Metal(name) ==
    CASE name = "M1" -> [name |-> "M1", index |-> 1, direction |-> "horizontal",
                         pitch |-> 16, offset |-> 0, min_width |-> 4, min_spacing |-> 4]
      [] name = "M2" -> [name |-> "M2", index |-> 2, direction |-> "vertical",
                         pitch |-> 16, offset |-> 0, min_width |-> 4, min_spacing |-> 4]
      [] name = "M3" -> [name |-> "M3", index |-> 3, direction |-> "horizontal",
                         pitch |-> 24, offset |-> 4, min_width |-> 8, min_spacing |-> 8]
      [] name = "M4" -> [name |-> "M4", index |-> 4, direction |-> "vertical",
                         pitch |-> 32, offset |-> 0, min_width |-> 8, min_spacing |-> 8]
      [] name = "AP" -> [name |-> "AP", index |-> 5, direction |-> "redistribution",
                         pitch |-> 32, offset |-> 0, min_width |-> 8, min_spacing |-> 8]
      [] name = "M6" -> [name |-> "M6", index |-> 6, direction |-> "vertical",
                         pitch |-> 20, offset |-> 0, min_width |-> 3, min_spacing |-> 3]
      [] name = "M7" -> [name |-> "M7", index |-> 7, direction |-> "vertical",
                         pitch |-> 8, offset |-> 0, min_width |-> 8, min_spacing |-> 8]

std_cell_rail_layer == "M1"

\* ------------------------------------------- stackup solvers (Metal)
\* Metal.get_width_spacing_start_twt(tracks): one wire between two signal
\* tracks, returned as <<width, spacing, start>>.
get_width_spacing_start_twt(layer, tracks) ==
    LET s2w == (tracks + 1) * layer.pitch - layer.min_width
        spacing == layer.min_spacing
        width == s2w - 2 * spacing
    IN  <<width, spacing, layer.min_width \div 2 + spacing>>

\* Metal.get_width_spacing_start_twwt(tracks, force_even=True): two wires
\* between two signal tracks, returned as <<width, spacing, start>>.
get_width_spacing_start_twwt(layer, tracks) ==
    LET s4w == (2 * tracks + 1) * layer.pitch - layer.min_width
        spacing == layer.min_spacing
        width == (s4w - 3 * spacing) \div 2
    IN  <<width, spacing, layer.min_width \div 2 + spacing>>

\* Metal.min_spacing_and_max_width_from_pitch(pitch): <<spacing, width>>.
min_spacing_and_max_width_from_pitch(layer, pitch) ==
    <<layer.min_spacing, pitch - layer.min_spacing>>

\* round(n / d) of Python 3 for n >= 0, d > 0: half to even.
RoundHalfEven(n, d) ==
    LET q == n \div d
        r == n % d
    IN  IF 2 * r < d THEN q
        ELSE IF 2 * r > d THEN q + 1
        ELSE IF q % 2 = 0 THEN q ELSE q + 1

\* ------------------------------------------------------------ messages
Msg(level, kind, a, b) == [level |-> level, kind |-> kind, a |-> a, b |-> b]
NoError == [type |-> "", msg |-> "", a |-> "", b |-> ""]
Error(type, msg, a, b) == [type |-> type, msg |-> msg, a |-> a, b |-> b]

\* ------------------------------------------ _get_by_tracks_track_pitch
\* power_utilization is held in percent; the two asserts are checked by
\* track_pitch_ok.
track_pitch_ok(cfg, layer_name) ==
    /\ cfg.power_utilization[layer_name] > 0
    /\ cfg.power_utilization[layer_name] <= 100

_get_by_tracks_track_pitch(cfg, layer_name) ==
    LET track_width == cfg.track_width[layer_name]
        track_spacing == cfg.track_spacing[layer_name]
        consumed_tracks == IF cfg.pattern[layer_name] = "mesh"
                             THEN 2 * track_width
                             ELSE 2 * track_width + track_spacing
    IN  RoundHalfEven(consumed_tracks * 100, cfg.power_utilization[layer_name])

\* ------------------------------- _get_power_straps_for_hardmacros
Rotated(orientation) == orientation \in {"r90", "r270"}

\* Lines 860-876 without the filter of lines 868-869 on physical-only cells.
Eligible_PhysicalToo(cfg, macro, layer) ==
    /\ ~IsNone(macro.master)
    /\ IsNone(cfg.power_straps_abutment_macros)
          \/ Val(macro.master) \in Val(cfg.power_straps_abutment_macros)
    /\ ~IsNone(macro.top_layer)
    /\ LET top_idx == Metal(Val(macro.top_layer)).index
       IN  ~(layer.index < top_idx \/ layer.index > top_idx + 1)

\* Lines 860-876: the silent eligibility filters.
Eligible(cfg, macro, layer) ==
    /\ ~IsNone(macro.master)
    /\ IsNone(cfg.power_straps_abutment_macros)
          \/ Val(macro.master) \in Val(cfg.power_straps_abutment_macros)
    /\ ~get_or_else(macro.create_physical, FALSE)
    /\ ~IsNone(macro.top_layer)
    /\ LET top_idx == Metal(Val(macro.top_layer)).index
       IN  ~(layer.index < top_idx \/ layer.index > top_idx + 1)

\* Lines 879-888: the value of oob after the three assignments.
BboxOob(macro, orientation, bbox) ==
    LET dims == ~IsNone(macro.width) /\ ~IsNone(macro.height)
        oob0 == FALSE
        oob1 == IF dims /\ Rotated(orientation)
                  THEN \/ macro.x + Val(macro.height) < bbox[1]
                       \/ macro.y + Val(macro.height) < bbox[2]
                  ELSE oob0
        oob2 == IF dims
                  THEN \/ macro.x + Val(macro.width) < bbox[1]
                       \/ macro.y + Val(macro.height) < bbox[2]
                  ELSE oob1
        oob3 == macro.x > bbox[3] \/ macro.y > bbox[4]
    IN  IF IsNone(bbox) THEN oob0 ELSE oob3

\* Lines 851-853 and 895: the power obstructions on the layer.
LayerPwrObs(cfg, layer_name) ==
    SelectSeq(cfg.obstructions,
              LAMBDA o : /\ ~IsNone(o.obs_types) /\ "power" \in Val(o.obs_types)
                         /\ ~IsNone(o.layers) /\ layer_name \in Val(o.layers))

\* Line 912 with < for <=: rectangles that share an edge count too.
Overlaps_Closed(m_ll_x, m_ll_y, m_ur_x, m_ur_y, po) ==
    ~(\/ m_ur_x < po.x
      \/ po.x + po.width < m_ll_x
      \/ m_ur_y < po.y
      \/ po.y + po.height < m_ll_y)

\* Line 912: the rectangles' interiors intersect.
Overlaps(m_ll_x, m_ll_y, m_ur_x, m_ur_y, po) ==
    ~(\/ m_ur_x <= po.x
      \/ po.x + po.width <= m_ll_x
      \/ m_ur_y <= po.y
      \/ po.y + po.height <= m_ll_y)

\* Lines 893-913: one error per overlapping power obstruction.
ObstructionMsgs(cfg, macro, orientation, layer, check_layer_idx) ==
    LET obs == LayerPwrObs(cfg, layer.name)
    IN  IF /\ layer.index = check_layer_idx /\ Len(obs) > 0
           /\ ~IsNone(macro.width) /\ ~IsNone(macro.height)
        THEN LET m_ur_x == IF Rotated(orientation) THEN macro.x + Val(macro.height)
                                                   ELSE macro.x + Val(macro.width)
                 m_ur_y == IF Rotated(orientation) THEN macro.y + Val(macro.width)
                                                   ELSE macro.y + Val(macro.height)
                 hit == SelectSeq(obs, LAMBDA po :
                                    Overlaps(macro.x, macro.y, m_ur_x, m_ur_y, po))
             IN  [k \in 1..Len(hit) |->
                    Msg("error", "obstructed", macro.path, hit[k].path)]
        ELSE <<>>

\* Lines 916-919: the group offset seen from the macro's origin.
OffsetTrans(macro, layer, pitch, offset) ==
    IF layer.direction = "vertical" THEN DecMod(offset - macro.x, pitch)
                                    ELSE DecMod(offset - macro.y, pitch)

\* Lines 923-929: the last strap of the group ends beyond the macro.
FitOob(macro, orientation, layer, last_edge) ==
    IF IsNone(macro.width) \/ IsNone(macro.height) THEN FALSE
    ELSE IF layer.direction = "vertical"
         THEN \/ Rotated(orientation) /\ last_edge > Val(macro.height)
              \/ last_edge > Val(macro.width)
         ELSE \/ Rotated(orientation) /\ last_edge > Val(macro.width)
              \/ last_edge > Val(macro.height)

\* Lines 915-921 without the skip of the else branch.
DirectionSupported_Any(layer) == TRUE

\* Lines 915-921: a layer that is neither vertical nor horizontal
\* (redistribution) is skipped before the record is appended.
DirectionSupported(layer) == layer.direction \in {"vertical", "horizontal"}

\* Lines 860-949 for one macro: the records appended and the messages logged.
MacroStep(cfg, macro, layer, pitch, width, spacing, offset, bbox, nets) ==
    LET orientation == Lower(get_or_else(macro.orientation, "r0"))
        check_abut == cfg.power_straps_abutment
        nothing == [recs |-> <<>>, msgs |-> <<>>]
    IN  IF ~Eligible(cfg, macro, layer) THEN nothing
        ELSE IF BboxOob(macro, orientation, bbox)
        THEN [recs |-> <<>>,
              msgs |-> <<Msg("error", "outside_bbox", macro.path, layer.name)>>]
        ELSE
          LET top_idx == Metal(Val(macro.top_layer)).index
              check_layer_idx == top_idx + (IF check_abut THEN 0 ELSE 1)
              obs_msgs == ObstructionMsgs(cfg, macro, orientation, layer, check_layer_idx)
          IN  IF ~DirectionSupported(layer)
              THEN [recs |-> <<>>, msgs |-> obs_msgs]
              ELSE
                LET offset_trans == OffsetTrans(macro, layer, pitch, offset)
                    last_edge == offset_trans + (Len(nets) - 1) * (width + spacing) + width
                    fit_msgs ==
                        IF FitOob(macro, orientation, layer, last_edge)
                           /\ layer.index = check_layer_idx
                        THEN <<Msg("error",
                                   IF check_abut THEN "cannot_abut" ELSE "cannot_via_down",
                                   macro.path, layer.name)>>
                        ELSE <<>>
                    rec == [master |-> Val(macro.master),
                            top_layer |-> Val(macro.top_layer),
                            path |-> macro.path,
                            orientation |-> orientation,
                            layer |-> layer.name,
                            direction |-> layer.direction,
                            net_order |-> nets,
                            width |-> ToDbu(width),
                            spacing |-> ToDbu(spacing),
                            group_pitch |-> ToDbu(pitch),
                            offset |-> ToDbu(offset_trans)]
                IN  [recs |-> <<rec>>, msgs |-> obs_msgs \o fit_msgs]

\* The loop of line 860 over the hard macros, in inventory order.
_get_power_straps_for_hardmacros(cfg, layer_name, pitch, width, spacing, offset, bbox, nets) ==
    LET layer == Metal(layer_name)
        steps == [k \in 1..Len(cfg.hardmacros) |->
                    MacroStep(cfg, cfg.hardmacros[k], layer, pitch, width, spacing,
                              offset, bbox, nets)]
    IN  [recs |-> Concat([k \in 1..Len(steps) |-> steps[k].recs]),
         msgs |-> Concat([k \in 1..Len(steps) |-> steps[k].msgs])]

\* ------------------------------ _dump_power_straps_for_hardmacros
Count(s, v) == Cardinality({k \in DOMAIN s : s[k] = v})

\* mode replaced by the first value of the data.
mode_first(s) == s[1]

\* statistics.mode: the most frequent value, the first one met on a tie.
mode(s) ==
    LET best == CHOOSE k \in DOMAIN s :
                  /\ \A j \in DOMAIN s : Count(s, s[j]) <= Count(s, s[k])
                  /\ \A j \in 1..(k - 1) : Count(s, s[j]) < Count(s, s[k])
    IN  s[best]

\* Line 971.
valid_orients(direction) ==
    IF direction = "vertical" THEN {"r0", "mx"} ELSE {"r0", "my"}

Paths(insts) == [k \in 1..Len(insts) |-> insts[k].path]
Orientations(insts) == [k \in 1..Len(insts) |-> insts[k].orientation]
Offsets(insts) == [k \in 1..Len(insts) |-> insts[k].offset]

\* Lines 985-987 copying the fields of the group's first record.
AboveDesc_FromGroup(first, insts) ==
    [layer |-> insts[1].layer, direction |-> insts[1].direction,
     net_order |-> insts[1].net_order, width |-> insts[1].width,
     spacing |-> insts[1].spacing, group_pitch |-> insts[1].group_pitch,
     inst_paths |-> Paths(insts), inst_orientations |-> Orientations(insts)]

\* Lines 985-987 and 1026-1027: the descriptor of the layer above.
AboveDesc(first, insts) ==
    [layer |-> first.layer, direction |-> first.direction,
     net_order |-> first.net_order, width |-> first.width,
     spacing |-> first.spacing, group_pitch |-> first.group_pitch,
     inst_paths |-> Paths(insts), inst_orientations |-> Orientations(insts)]

\* Lines 1020-1023 listing only the first record of the group.
AbutDesc_FirstOnly(insts, max_count_offset) ==
    [layer |-> insts[1].layer, direction |-> insts[1].direction,
     net_order |-> insts[1].net_order, width |-> insts[1].width,
     spacing |-> insts[1].spacing, group_pitch |-> insts[1].group_pitch,
     offset |-> max_count_offset,
     inst_paths |-> <<insts[1].path>>, inst_orientations |-> <<insts[1].orientation>>]

\* Lines 1020-1023.
AbutDesc(insts, max_count_offset) ==
    [layer |-> insts[1].layer, direction |-> insts[1].direction,
     net_order |-> insts[1].net_order, width |-> insts[1].width,
     spacing |-> insts[1].spacing, group_pitch |-> insts[1].group_pitch,
     offset |-> max_count_offset,
     inst_paths |-> Paths(insts), inst_orientations |-> Orientations(insts)]

\* Lines 1012-1018: the name of the entry.
MasterModule(master, variant_cnt) ==
    IF variant_cnt > 0 THEN master \o "_" \o Str(variant_cnt) ELSE master

\* Lines 999-1032: the while loop of one master; each entry carries the
\* variant number it was given.
RECURSIVE GroupLoop(_, _, _, _, _)
GroupLoop(master, abut_insts, bad_orient_insts, above_insts, variant_cnt) ==
    IF Len(abut_insts) + Len(bad_orient_insts) = 0 THEN <<>>
    ELSE
      LET from_abut == Len(abut_insts) > 0
          pool == IF from_abut THEN abut_insts ELSE bad_orient_insts
          max_count_offset == mode(Offsets(pool))
          insts == SelectSeq(pool, LAMBDA m : m.offset = max_count_offset)
          rest == SelectSeq(pool, LAMBDA m : m.offset # max_count_offset)
          abut_desc == AbutDesc(insts, max_count_offset)
          entry == [name |-> MasterModule(master, variant_cnt),
                    master |-> master,
                    variant |-> variant_cnt,
                    descs |-> IF Len(above_insts) > 0
                                THEN <<abut_desc, AboveDesc(above_insts[1], insts)>>
                                ELSE <<abut_desc>>]
      IN  <<entry>> \o GroupLoop(master,
                                 IF from_abut THEN rest ELSE abut_insts,
                                 IF from_abut THEN bad_orient_insts ELSE rest,
                                 above_insts, variant_cnt + 1)

\* Lines 992-997 with the loop's lists taken from every layer of the master.
MasterStep_AboveToo(acc, master, check_abut) ==
    LET insts == SelectSeq(acc, LAMBDA m : m.master = master)
        above_insts == SelectSeq(insts, LAMBDA m : m.top_layer # m.layer)
        abut_insts == SelectSeq(insts, LAMBDA m :
                         m.orientation \in valid_orients(m.direction))
        bad_orient_insts == SelectSeq(insts, LAMBDA m :
                         m.orientation \notin valid_orients(m.direction))
    IN  [entries |-> GroupLoop(master, abut_insts, bad_orient_insts, above_insts, 0),
         msgs |-> <<>>]

\* Lines 976-1032 for one master: its entries and its messages.
MasterStep(acc, master, check_abut) ==
    LET insts == SelectSeq(acc, LAMBDA m : m.master = master)
        above_insts == SelectSeq(insts, LAMBDA m : m.top_layer # m.layer)
        abut_insts == SelectSeq(insts, LAMBDA m :
                         /\ m.top_layer = m.layer
                         /\ m.orientation \in valid_orients(m.direction))
        bad_orient_insts == SelectSeq(insts, LAMBDA m :
                         /\ m.top_layer = m.layer
                         /\ m.orientation \notin valid_orients(m.direction))
        conflict == IF Cardinality({insts[k].top_layer : k \in DOMAIN insts}) > 1
                      THEN <<Msg("error", "conflicting_top_layer", master, "")>>
                      ELSE <<>>
        same == IF Len(above_insts) = 0 /\ Len(insts) > 0 /\ ~check_abut
                  THEN <<Msg("error", "same_as_top_layer", master, insts[1].layer)>>
                  ELSE <<>>
    IN  [entries |-> GroupLoop(master, abut_insts, bad_orient_insts, above_insts, 0),
         msgs |-> conflict \o same]

\* Line 974: the set of masters of the accumulator.
Masters(acc) == {acc[k].master : k \in DOMAIN acc}

\* The orders in which the for loop of line 976 may visit a set.
Orderings(S) ==
    {f \in [1..Cardinality(S) -> S] : \A i, j \in DOMAIN f : i # j => f[i] # f[j]}

\* Lines 1013-1017: misaligned_insts, as the sequence of its items; a key
\* is inserted when its master gets its first variant.
MisalignedInsts(entries) ==
    LET vars == SelectSeq(entries, LAMBDA e : e.variant > 0)
        firsts == SelectSeq(vars, LAMBDA e : e.variant = 1)
    IN  [k \in 1..Len(firsts) |->
           [master |-> firsts[k].master,
            paths |-> Concat([j \in 1..Len(vars) |->
                         IF vars[j].master = firsts[k].master
                           THEN vars[j].descs[1].inst_paths ELSE <<>>])]]

\* The test of line 1034 without check_abut.
AggregateLogged_AnyMode(check_abut, misaligned_insts) == Len(misaligned_insts) > 0

\* Line 1034: the aggregate message is logged.
AggregateLogged(check_abut, misaligned_insts) ==
    check_abut /\ Len(misaligned_insts) > 0

\* Lines 965-1043 with the masters visited in the given order: the report
\* written to power_straps.json and the messages logged.
_dump_power_straps_for_hardmacros(acc, check_abut, order) ==
    LET steps == [k \in 1..Len(order) |-> MasterStep(acc, order[k], check_abut)]
        entries == Concat([k \in 1..Len(steps) |-> steps[k].entries])
        misaligned_insts == MisalignedInsts(entries)
        aggregate == IF AggregateLogged(check_abut, misaligned_insts)
                       THEN <<Msg("error", "misaligned", "", "")>>
                       ELSE <<>>
    IN  [report |-> [k \in 1..Len(entries) |->
                       [name |-> entries[k].name, descs |-> entries[k].descs]],
         misaligned |-> misaligned_insts,
         msgs |-> Concat([k \in 1..Len(steps) |-> steps[k].msgs]) \o aggregate]

\* ------------------------------------ specify_power_straps_by_tracks
\* Line 731 with one track too many.
one_strap_pitch_plus_one(layer, track_width) == (track_width + 1) * layer.pitch

\* Line 731: the pitch of one strap of an all-power layer.
one_strap_pitch(layer, track_width) == track_width * layer.pitch

\* Lines 725-726 without the override.
sizing_track_spacing_configured(pattern, track_spacing) == track_spacing

\* Lines 725-726: under the mesh pattern the strap is sized with a
\* track_spacing of 1.
sizing_track_spacing(pattern, track_spacing) ==
    IF pattern = "mesh" THEN 1 ELSE track_spacing

\* Lines 719-744: the resolved geometry of one strap group.
Convert(layer, track_pitch, track_width, track_spacing_in, track_start, track_offset, layer_is_all_power, pattern) ==
    LET pitch == track_pitch * layer.pitch
        track_spacing == sizing_track_spacing(pattern, track_spacing_in)
        sw == min_spacing_and_max_width_from_pitch(layer,
                                                   one_strap_pitch(layer, track_width))
        twwt == get_width_spacing_start_twwt(layer, track_width)
        twt == get_width_spacing_start_twt(layer, track_width)
        wss == IF track_spacing = 0
                 THEN IF layer_is_all_power
                        THEN <<sw[2], sw[1], sw[1] \div 2 + layer.offset>>
                        ELSE twwt
                 ELSE <<twt[1],
                        IF pattern = "mesh"
                          THEN pitch \div 2 - twt[1]
                          ELSE 2 * twt[2] + (track_spacing - 1) * layer.pitch
                               + layer.min_width,
                        twt[3]>>
    IN  [pitch |-> pitch, width |-> wss[1], spacing |-> wss[2],
         offset |-> track_offset + track_start * layer.pitch + wss[3]]

\* Lines 743-744 with the assert on the spacing left out.
GeomError_WidthOnly(g, layer_name) ==
    IF ~(g.width > 0) THEN Error("AssertionError", "width", layer_name, "")
    ELSE NoError

\* Lines 743-744: the asserts on the resolved width and spacing; both
\* messages name the layer.
GeomError(g, layer_name) ==
    IF ~(g.width > 0) THEN Error("AssertionError", "width", layer_name, "")
    ELSE IF ~(g.spacing > 0) THEN Error("AssertionError", "spacing", layer_name, "")
    ELSE NoError

\* Lines 745-746 with >= for >.
DensityWarning_AtLeast(nets, width, pitch) == Len(nets) * width * 100 >= 85 * pitch

\* Lines 745-746: density > 85, with density = len(nets) * width / pitch * 100.
DensityWarning(nets, width, pitch) == Len(nets) * width * 100 > 85 * pitch

\* Lines 1047-1050 with the assert asking for a strictly higher index.
_power_straps_check_index_Strict(last_index, layer_name) ==
    Metal(layer_name).index > last_index

\* Lines 1047-1050.
_power_straps_check_index(last_index, layer_name) ==
    Metal(layer_name).index >= last_index

\* Line 818 handing over the rail layer for last.name.
StrapCmd_RailVia(layer_name, bottom_via_layer, g, nets, add_pins) ==
    [kind |-> "straps", layer |-> layer_name, bottom_via |-> std_cell_rail_layer,
     pitch |-> g.pitch, width |-> g.width, spacing |-> g.spacing,
     offset |-> g.offset, nets |-> nets, add_pins |-> add_pins]

\* The command of specify_power_straps (lines 1088-1109): its arguments.
StrapCmd(layer_name, bottom_via_layer, g, nets, add_pins) ==
    [kind |-> "straps", layer |-> layer_name, bottom_via |-> bottom_via_layer,
     pitch |-> g.pitch, width |-> g.width, spacing |-> g.spacing,
     offset |-> g.offset, nets |-> nets, add_pins |-> add_pins]

\* Line 782 with the power nets alone.
RailCmd_PowerOnly(nets) ==
    [kind |-> "rail", layer |-> std_cell_rail_layer, bottom_via |-> "",
     pitch |-> 0, width |-> 0, spacing |-> 0, offset |-> 0, nets |-> Tail(nets),
     add_pins |-> FALSE]

\* The command of specify_std_cell_power_straps (lines 1111-1128).
RailCmd(nets) ==
    [kind |-> "rail", layer |-> std_cell_rail_layer, bottom_via |-> "",
     pitch |-> 0, width |-> 0, spacing |-> 0, offset |-> 0, nets |-> nets,
     add_pins |-> FALSE]

\* -------------------------------------------------------------- state
VARIABLES
    db,                        \* per tool: settings, arguments, placement
    pc,                        \* per tool: where its generation call is
    li,                        \* per tool: position in layer_names (1-based)
    gi,                        \* per tool: i of the loop of line 813
    last,                      \* per tool: name of the last layer used
    output,                    \* per tool: commands emitted by the call
    log,                       \* per tool: messages logged
    err,                       \* per tool: the exception that ended the call
    report,                    \* per tool: power_straps.json in its run_dir
    aggregate_msg,             \* per tool: misaligned_insts of the last
                               \*           aggregate message logged
    runs,                      \* per tool: generation calls started
    _power_straps_last_index,  \* per tool (set on the instance, line 1050)
    _hardmacro_power_straps    \* the list of line 825, a class attribute

vars == <<db, pc, li, gi, last, output, log, err, report, aggregate_msg, runs,
          _power_straps_last_index, _hardmacro_power_straps>>

Tools == DOMAIN db

\* self._hardmacro_power_straps of a tool: the attribute is never assigned on
\* the instance (line 937 appends in place), so it is the list of the class.
Accumulator(t) == _hardmacro_power_straps

\* ----------------------------------- specify_all_power_straps_by_tracks
Set(f, t, v) == [f EXCEPT ![t] = v]

\* Lines 770-782 without the loop of lines 773-774 over the pin layers.
StartError_NoPinCheck(cfg, last_index) ==
    IF Len(cfg.power_nets) # Len(cfg.power_weights)
      THEN Error("AssertionError", "nets_weights_length", "", "")
    ELSE IF cfg.generate_rail_layer
            /\ ~_power_straps_check_index(last_index, std_cell_rail_layer)
      THEN Error("AssertionError", "bottom_to_top", std_cell_rail_layer, "")
    ELSE NoError

\* Lines 770-782: the assert on the lengths, the asserts on the pin layers
\* (the first pin layer that fails is named), then the rail group's check.
StartError(cfg, last_index) ==
    LET bad_pins == SelectSeq(cfg.pin_layers,
                              LAMBDA l : l \notin Range(cfg.layer_names))
    IN  IF Len(cfg.power_nets) # Len(cfg.power_weights)
          THEN Error("AssertionError", "nets_weights_length", "", "")
        ELSE IF Len(bad_pins) > 0
          THEN Error("AssertionError", "pin_layer_not_in_strap_layers",
                     bad_pins[1], "")
        ELSE IF cfg.generate_rail_layer
                /\ ~_power_straps_check_index(last_index, std_cell_rail_layer)
          THEN Error("AssertionError", "bottom_to_top", std_cell_rail_layer, "")
        ELSE NoError

\* Lines 770-787: the checks, the standard-cell rail group and the start of
\* the loop over the layers.
Start(t) ==
    /\ pc[t] \in {"idle", "done", "failed"}
    /\ runs[t] < db[t].calls
    /\ LET cfg == db[t]
           rail == cfg.generate_rail_layer
           e == StartError(cfg, _power_straps_last_index[t])
           ok == e = NoError
       IN  /\ runs' = Set(runs, t, runs[t] + 1)
           /\ err' = Set(err, t, e)
           /\ pc' = Set(pc, t, IF ok THEN "layer" ELSE "failed")
           /\ output' = Set(output, t,
                            IF ok /\ rail
                              THEN <<RailCmd(<<cfg.ground_net>> \o cfg.power_nets)>>
                              ELSE <<>>)
           /\ _power_straps_last_index' =
                 Set(_power_straps_last_index, t,
                     IF ok /\ rail THEN Metal(std_cell_rail_layer).index
                                   ELSE _power_straps_last_index[t])
           /\ last' = Set(last, t, cfg.bottom_via_layer)
           /\ li' = Set(li, t, 1)
           /\ gi' = Set(gi, t, 0)
    /\ UNCHANGED <<db, log, report, aggregate_msg, _hardmacro_power_straps>>

\* The assert of line 791 with >= for > (as _power_straps_check_index has it).
BottomUp_AllowEqual(layer, lastl) == layer.index >= lastl.index

\* Line 791: the assert on the stacking order.
BottomUp(layer, lastl) == layer.index > lastl.index

\* The test of line 792 comparing a direction with a layer name.
SameDirection_WrongField(layer, lastl) == lastl.direction = layer.name

\* Line 792.
SameDirection(layer, lastl) == lastl.direction = layer.direction

\* Line 789 with the loop left one layer early.
LoopEnded_Early(cfg, pos) == pos >= Len(cfg.layer_names)

\* Line 789: the for loop has gone through every layer of layer_names.
LoopEnded(cfg, pos) == pos > Len(cfg.layer_names)

\* Lines 789-812: the head of the loop over the layers, up to the loop over
\* the positions of the repeat period.
LayerStep(t) ==
    /\ pc[t] = "layer"
    /\ LET cfg == db[t]
           finished == LoopEnded(cfg, li[t])
           layer == Metal(cfg.layer_names[li[t]])
           lastl == Metal(last[t])
           sum_weights == SumSeq(cfg.power_weights)
           e == IF finished THEN NoError
                ELSE IF ~BottomUp(layer, lastl)
                  THEN Error("AssertionError", "bottom_up", "", "")
                ELSE IF SameDirection(layer, lastl)
                  THEN Error("ValueError", "same_direction", lastl.name, layer.name)
                ELSE IF ~track_pitch_ok(cfg, layer.name)
                  THEN Error("AssertionError", "power_utilization", layer.name, "")
                ELSE NoError
           empty == ~finished /\ e = NoError /\ sum_weights <= 0
       IN  /\ err' = Set(err, t, e)
           /\ pc' = Set(pc, t, IF finished THEN "dump"
                               ELSE IF e # NoError THEN "failed"
                               ELSE IF empty THEN "layer" ELSE "group")
           /\ last' = Set(last, t, IF empty THEN layer.name ELSE last[t])
           /\ li' = Set(li, t, IF empty THEN li[t] + 1 ELSE li[t])
           /\ gi' = Set(gi, t, 0)
    /\ UNCHANGED <<db, output, log, report, aggregate_msg, runs,
                   _power_straps_last_index, _hardmacro_power_straps>>

\* Line 748 with a recorder that raises once it has logged an error.
RecorderRaises_OnError(hm) == \E k \in DOMAIN hm.msgs : hm.msgs[k].level = "error"

\* Lines 748 and 827-949: the recorder reports through logger.error only
\* (lines 890, 913, 932, 934); it holds no raise and no assert, and the
\* call of line 748 returns whatever it logged.
RecorderRaises(hm) == FALSE

\* Line 815 without the stride of the position.
group_offset_NoStride(cfg, layer, track_pitch, i) ==
    layer.offset + cfg.track_offset[layer.name]

\* Line 815: the offset handed to the converter for position i.
group_offset(cfg, layer, track_pitch, i) ==
    layer.offset + cfg.track_offset[layer.name] + track_pitch * i * layer.pitch

\* Line 816: the pitch of the repeat period, in tracks.
group_pitch(cfg, track_pitch) == SumSeq(cfg.power_weights) * track_pitch

\* Line 814: power_nets[i] of the position i (0-based) of the period.
GroupNets(cfg, i) == <<cfg.ground_net, cfg.power_nets[i + 1]>>

\* Lines 813-820 for one i: nets, group offset and pitch, then
\* specify_power_straps_by_tracks (lines 719-749): the converter, its two
\* asserts, the density warning, the recorder and specify_power_straps.
GroupStep(t) ==
    /\ pc[t] = "group"
    /\ LET cfg == db[t]
           i == gi[t]
           layer_name == cfg.layer_names[li[t]]
           layer == Metal(layer_name)
           sum_weights == SumSeq(cfg.power_weights)
           track_width == cfg.track_width[layer_name]
           track_pitch == _get_by_tracks_track_pitch(cfg, layer_name)
           layer_is_all_power == 2 * track_width = track_pitch
           in_range == i < Len(cfg.power_nets)
           nets == GroupNets(cfg, i)
           g == Convert(layer, group_pitch(cfg, track_pitch), track_width,
                        cfg.track_spacing[layer_name], cfg.track_start[layer_name],
                        group_offset(cfg, layer, track_pitch, i),
                        layer_is_all_power, cfg.pattern[layer_name])
           geom_err == GeomError(g, layer_name)
           recorded == in_range /\ geom_err = NoError
           density == IF DensityWarning(nets, g.width, g.pitch)
                        THEN <<Msg("warning", "density", layer_name, "")>>
                        ELSE <<>>
           hm == _get_power_straps_for_hardmacros(cfg, layer_name, g.pitch, g.width,
                                                  g.spacing, g.offset, cfg.bbox, nets)
           index_ok == _power_straps_check_index(_power_straps_last_index[t],
                                                 layer_name)
           e == IF ~in_range THEN Error("IndexError", "power_nets", layer_name, "")
                ELSE IF geom_err # NoError THEN geom_err
                ELSE IF RecorderRaises(hm)
                  THEN Error("PlacementError", "recorder", layer_name, "")
                ELSE IF ~index_ok
                  THEN Error("AssertionError", "bottom_to_top", layer_name, "")
                ELSE NoError
           ok == e = NoError
           layer_done == ok /\ i + 1 = sum_weights
       IN  /\ err' = Set(err, t, e)
           /\ log' = Set(log, t, IF recorded THEN log[t] \o density \o hm.msgs
                                             ELSE log[t])
           /\ _hardmacro_power_straps' =
                 IF recorded THEN _hardmacro_power_straps \o hm.recs
                             ELSE _hardmacro_power_straps
           /\ _power_straps_last_index' =
                 Set(_power_straps_last_index, t,
                     IF ok THEN layer.index ELSE _power_straps_last_index[t])
           /\ output' = Set(output, t,
                            IF ok THEN Append(output[t],
                                              StrapCmd(layer_name, last[t], g, nets,
                                                       layer_name \in Range(cfg.pin_layers)))
                                  ELSE output[t])
           /\ pc' = Set(pc, t, IF ~ok THEN "failed"
                               ELSE IF layer_done THEN "layer" ELSE "group")
           /\ gi' = Set(gi, t, IF ok /\ ~layer_done THEN i + 1 ELSE IF ok THEN 0 ELSE i)
           /\ last' = Set(last, t, IF layer_done THEN layer_name ELSE last[t])
           /\ li' = Set(li, t, IF layer_done THEN li[t] + 1 ELSE li[t])
    /\ UNCHANGED <<db, report, aggregate_msg, runs>>

\* Lines 822-823: the aggregator, called once the loop over the layers has
\* ended, then the return of the commands.  The for loop of line 976 visits
\* the set of masters in an order the code does not fix.
Dump(t) ==
    /\ pc[t] = "dump"
    /\ \E order \in Orderings(Masters(_hardmacro_power_straps)) :
         LET d == _dump_power_straps_for_hardmacros(_hardmacro_power_straps,
                                                    db[t].power_straps_abutment, order)
         IN  /\ report' = Set(report, t, d.report)
             /\ log' = Set(log, t, log[t] \o d.msgs)
             /\ aggregate_msg' = Set(aggregate_msg, t,
                                     IF AggregateLogged(db[t].power_straps_abutment,
                                                        d.misaligned)
                                       THEN d.misaligned ELSE <<>>)
    /\ pc' = Set(pc, t, "done")
    /\ UNCHANGED <<db, li, gi, last, output, err, runs,
                   _power_straps_last_index, _hardmacro_power_straps>>

Next ==
    \/ \E t \in Tools : Start(t)
    \/ \E t \in Tools : LayerStep(t)
    \/ \E t \in Tools : GroupStep(t)
    \/ \E t \in Tools : Dump(t)

\* ------------------------------------------------------ configurations
Uniform(v) == [l \in LayerNames |-> v]

\* A hard macro of the placement constraints.
Macro(master, path, x, y, orientation, width, height, top_layer, create_physical) ==
    [master |-> master, path |-> path, x |-> x, y |-> y,
     orientation |-> orientation, width |-> width, height |-> height,
     top_layer |-> top_layer, create_physical |-> create_physical]

\* An obstruction of the placement constraints.
Obstruction(path, x, y, width, height, layers, obs_types) ==
    [path |-> path, x |-> x, y |-> y, width |-> width, height |-> height,
     layers |-> layers, obs_types |-> obs_types]

\* One tool's settings and the arguments of its generation call.
Config(layer_names, bottom_via_layer, power_nets, power_weights, bbox, pin_layers, generate_rail_layer, check_abut, hardmacros, obstructions, calls) ==
    [layer_names |-> layer_names, bottom_via_layer |-> bottom_via_layer,
     ground_net |-> "VSS", power_nets |-> power_nets,
     power_weights |-> power_weights, bbox |-> bbox, pin_layers |-> pin_layers,
     generate_rail_layer |-> generate_rail_layer,
     power_straps_abutment |-> check_abut,
     power_straps_abutment_macros |-> None,
     track_width |-> Uniform(2), track_spacing |-> Uniform(0),
     track_start |-> Uniform(0), track_offset |-> Uniform(0),
     pattern |-> Uniform("strap"), power_utilization |-> Uniform(50),
     hardmacros |-> hardmacros, obstructions |-> obstructions, calls |-> calls]

\* The builder's configurations: every layer list, net list and weight list
\* within the bounds, over one placed macro.
BuilderConfigs ==
    {Config(ln, bv, pn, pw, None, pl, rail, FALSE,
            <<Macro(Some("X"), "a/m1", 0, 0, None, Some(256), Some(256),
                    Some("M2"), None)>>,
            <<>>, 1) :
       ln \in SeqsUpTo({"M1", "M2", "M3", "M4"}, MaxLayers), bv \in {"M1", "M2"},
       pn \in {<<"VDDA">>, <<"VDDA", "VDDB">>},
       pw \in SeqsUpTo(1..MaxWeight, 2) \ {<<>>},
       pl \in {<<>>, <<"M3">>}, rail \in BOOLEAN}

\* The state after construction of the tools in T.
InitWith(T, Configs) ==
    /\ db \in [T -> Configs]
    /\ pc = [t \in T |-> "idle"]
    /\ li = [t \in T |-> 1]
    /\ gi = [t \in T |-> 0]
    /\ last = [t \in T |-> ""]
    /\ output = [t \in T |-> <<>>]
    /\ log = [t \in T |-> <<>>]
    /\ err = [t \in T |-> NoError]
    /\ report = [t \in T |-> <<>>]
    /\ aggregate_msg = [t \in T |-> <<>>]
    /\ runs = [t \in T |-> 0]
    /\ _power_straps_last_index = [t \in T |-> 0 - 1]
    /\ _hardmacro_power_straps = <<>>

Init == InitWith({1}, BuilderConfigs)

Spec == Init /\ [][Next]_vars

\* The recorder's configurations: one macro of every kind beside a plain one,
\* with and without a bounding box, a power obstruction and strict abutment,
\* under straps on M2 and M3 or on the redistribution layer.
RecBbox == <<256, 256, 768, 768>>

RecMacros ==
    {Macro(master, "a/m1", x, y, orientation, dims[1], dims[2], top_layer, physical) :
       master \in {None, Some("X")}, x \in {0, 384, 1024}, y \in {0, 384, 1024},
       orientation \in {None, Some("R90")},
       dims \in {<<None, None>>, <<Some(128), Some(64)>>},
       top_layer \in {None, Some("M2"), Some("M4")},
       physical \in {None, Some(TRUE)}}

RecObstructions ==
    {<<>>,
     <<Obstruction("a/obs_pwr", 0, 0, 448, 448, Some({"M2", "M3", "AP"}),
                   Some({"power"})),
       Obstruction("a/obs_place", 384, 384, 64, 64, Some({"M2", "M3", "AP"}),
                   Some({"place"}))>>}

RecorderConfigs ==
    {Config(lb[1], lb[2], <<"VDDA">>, <<1>>, bbox, <<>>, FALSE, check_abut,
            <<m, Macro(Some("Y"), "a/m0", 384, 384, None, Some(512), Some(512),
                       Some(lb[1][1]), None)>>,
            obs, 1) :
       lb \in {<<<<"M2", "M3">>, "M1">>, <<<<"AP">>, "M4">>},
       bbox \in {None, RecBbox}, check_abut \in BOOLEAN,
       m \in RecMacros, obs \in RecObstructions}

InitRec == InitWith({1}, RecorderConfigs)

SpecRec == InitRec /\ [][Next]_vars

\* The aggregator's configurations: up to MaxMacros macros of two masters at
\* two positions, upright or rotated, under two strap groups per layer.
AggMacros ==
    {[master |-> master, x |-> x, orientation |-> orientation] :
       master \in {"X", "Y"}, x \in {0, 128}, orientation \in {None, Some("R90")}}

AggInventory(ms) ==
    [k \in 1..Len(ms) |->
       Macro(Some(ms[k].master), "a/m" \o Str(k), ms[k].x, 0, ms[k].orientation,
             Some(512), Some(512), Some("M2"), None)]

AggregatorConfigs ==
    {Config(ln, "M1", <<"VDDA", "VDDB">>, <<1, 1>>, None, <<>>, FALSE, check_abut,
            AggInventory(ms), <<>>, 1) :
       ln \in {<<"M2">>, <<"M2", "M3">>}, check_abut \in BOOLEAN,
       ms \in SeqsUpTo(AggMacros, MaxMacros) \ {<<>>}}

InitAgg == InitWith({1}, AggregatorConfigs)

SpecAgg == InitAgg /\ [][Next]_vars

\* Two tool instances of one process (two hierarchical blocks), each called
\* up to MaxRuns times, each with its own placed macro.
BlockConfigs(block) ==
    {Config(<<"M2">>, "M1", <<"VDDA">>, <<1>>, None, <<>>, rail, check_abut,
            <<Macro(Some(master), block \o "/m1", x, 0, None, Some(512), Some(512),
                    Some("M2"), None)>>,
            <<>>, MaxRuns) :
       rail \in BOOLEAN, check_abut \in BOOLEAN, master \in {"X"}, x \in {0}}

InitRuns ==
    /\ InitWith({1, 2}, BlockConfigs("a") \cup BlockConfigs("b"))
    /\ db[1] \in BlockConfigs("a")
    /\ db[2] \in BlockConfigs("b")

SpecRuns == InitRuns /\ [][Next]_vars

\* The eligibility filters' configurations: a macro with every combination
\* of master, top layer and physical-only flag beside an eligible one, with
\* and without an allow-list of masters and a bounding box.
EligMacros ==
    {Macro(master, "a/m1", x, 0, None, Some(128), Some(64), top_layer, physical) :
       master \in {None, Some("X"), Some("Z")}, x \in {0, 1024},
       top_layer \in {None, Some("M1"), Some("M2"), Some("M3"), Some("M4")},
       physical \in {None, Some(FALSE), Some(TRUE)}}

EligConfigs ==
    {[Config(<<"M2", "M3">>, "M1", <<"VDDA">>, <<1>>, bbox, <<>>, FALSE, FALSE,
             <<m, Macro(Some("X"), "a/m0", 384, 384, None, Some(128), Some(64),
                        Some("M2"), None)>>,
             <<>>, 1)
        EXCEPT !.power_straps_abutment_macros = allow] :
       bbox \in {None, RecBbox}, m \in EligMacros,
       allow \in {None, Some({"X"}), Some({"X", "Z"})}}

InitElig == InitWith({1}, EligConfigs)

SpecElig == InitElig /\ [][Next]_vars

\* The converter's configurations: track widths, spacings, patterns and
\* utilizations on well-formed layers (M2, M3, M6) and on a layer whose
\* spacing rule leaves no room for a strap (M7), over one placed macro whose
\* top layer is the first strap layer.
ConverterConfigs ==
    {[Config(ln, "M1", nw[1], nw[2], None, <<>>, FALSE, FALSE,
             <<Macro(Some("X"), "a/m1", 0, 0, None, Some(512), Some(512),
                     Some(ln[1]), None)>>,
             <<>>, 1)
        EXCEPT !.track_width = Uniform(tw), !.track_spacing = Uniform(ts),
               !.pattern = Uniform(pat), !.power_utilization = Uniform(util)] :
       ln \in {<<"M2">>, <<"M6">>, <<"M7">>, <<"M2", "M3">>},
       nw \in {<<<<"VDDA">>, <<1>>>>, <<<<"VDDA", "VDDB">>, <<1, 1>>>>},
       tw \in {1, 2}, ts \in {0, 1}, pat \in {"strap", "mesh"},
       util \in {50, 100}}

InitConv == InitWith({1}, ConverterConfigs)

SpecConv == InitConv /\ [][Next]_vars

\* Two calls with the same arguments and settings, strict abutment off: tool
\* 1 over an inventory of two macros of one master, with and without power
\* obstructions, tool 2 over an empty inventory.
PairMacros ==
    {Macro(Some("X"), "a/m1", x, 0, orientation, dims[1], dims[2], top_layer, None) :
       x \in {0, 384, 1024}, orientation \in {None, Some("R90")},
       dims \in {<<None, None>>, <<Some(128), Some(64)>>},
       top_layer \in {Some("M2"), Some("M3")}}

PairConfigs ==
    {Config(ln, "M1", <<"VDDA">>, <<1>>, bbox, <<>>, rail, FALSE,
            <<m, Macro(Some("X"), "a/m0", 384, 0, None, Some(128), Some(64),
                       Some("M2"), None)>>,
            obs, 1) :
       ln \in {<<"M2", "M3">>, <<"M3">>}, bbox \in {None, RecBbox},
       rail \in BOOLEAN, m \in PairMacros, obs \in RecObstructions}

InitPair ==
    /\ db \in {[t \in {1, 2} |->
                  IF t = 1 THEN c
                  ELSE [c EXCEPT !.hardmacros = <<>>, !.obstructions = <<>>]] :
                c \in PairConfigs}
    /\ pc = [t \in {1, 2} |-> "idle"]
    /\ li = [t \in {1, 2} |-> 1]
    /\ gi = [t \in {1, 2} |-> 0]
    /\ last = [t \in {1, 2} |-> ""]
    /\ output = [t \in {1, 2} |-> <<>>]
    /\ log = [t \in {1, 2} |-> <<>>]
    /\ err = [t \in {1, 2} |-> NoError]
    /\ report = [t \in {1, 2} |-> <<>>]
    /\ aggregate_msg = [t \in {1, 2} |-> <<>>]
    /\ runs = [t \in {1, 2} |-> 0]
    /\ _power_straps_last_index = [t \in {1, 2} |-> 0 - 1]
    /\ _hardmacro_power_straps = <<>>

SpecPair == InitPair /\ [][Next]_vars

\* The obstruction check's configurations: a macro 128 by 64, upright or
\* rotated, with or without dimensions, at three positions, against power
\* obstructions that overlap it, touch it along an edge or lie apart, an
\* obstruction of another kind and one without layers, under straps on M2
\* and M3 or on the redistribution layer.
ObsMacros ==
    {Macro(Some("X"), "a/m1", x, 0, orientation, dims[1], dims[2], top_layer, None) :
       x \in {0, 384, 448}, orientation \in {None, Some("R90")},
       dims \in {<<None, None>>, <<Some(128), Some(64)>>},
       top_layer \in {Some("M2"), Some("AP")}}

ObsInventories ==
    {<<>>,
     <<Obstruction("a/obs_low", 0, 0, 448, 64, Some({"M2", "M3", "AP"}),
                   Some({"power"})),
       Obstruction("a/obs_high", 0, 64, 448, 64, Some({"M3", "AP"}),
                   Some({"place", "power"}))>>,
     <<Obstruction("a/obs_place", 0, 0, 1024, 1024, Some({"M2", "M3", "AP"}),
                   Some({"place"})),
       Obstruction("a/obs_any", 0, 0, 1024, 1024, Some({"M2", "M3", "AP"}), None),
       Obstruction("a/obs_nolayer", 0, 0, 1024, 1024, None, Some({"power"})),
       Obstruction("a/obs_high", 0, 64, 448, 64, Some({"M2"}), Some({"power"}))>>}

ObsConfigs ==
    {Config(lb[1], lb[2], <<"VDDA">>, <<1>>, None, <<>>, FALSE, check_abut,
            <<m>>, obs, 1) :
       lb \in {<<<<"M2", "M3">>, "M1">>, <<<<"AP">>, "M4">>},
       check_abut \in BOOLEAN, m \in ObsMacros, obs \in ObsInventories}

InitObs == InitWith({1}, ObsConfigs)

SpecObs == InitObs /\ [][Next]_vars

\* One tool instance called up to MaxRuns times with the same settings: one
\* or two strap layers, one or two groups per layer, with and without the
\* standard-cell rail group.
IndexConfigs ==
    {Config(ln, "M1", nw[1], nw[2], None, <<>>, rail, check_abut,
            <<Macro(Some("X"), "a/m1", 0, 0, None, Some(512), Some(512),
                    Some("M2"), None)>>,
            <<>>, MaxRuns) :
       ln \in {<<"M2">>, <<"M2", "M3">>},
       nw \in {<<<<"VDDA">>, <<1>>>>, <<<<"VDDA", "VDDB">>, <<1, 1>>>>},
       rail \in BOOLEAN, check_abut \in BOOLEAN}

InitIndex == InitWith({1}, IndexConfigs)

SpecIndex == InitIndex /\ [][Next]_vars

\* ------------------------------------------------------------- claims
\* The strap commands among the commands emitted.
Straps(out) == SelectSeq(out, LAMBDA c : c.kind = "straps")

\* The net lists of the strap groups emitted on a layer, in emission order.
NetsOnLayer(out, layer_name) ==
    LET on == SelectSeq(Straps(out), LAMBDA c : c.layer = layer_name)
    IN  [k \in 1..Len(on) |-> on[k].nets]

\* One repeat period of the weighted striping: P[k] in W[k] consecutive
\* groups, following the order of P.
Pattern(ground, P, W) ==
    Concat([k \in 1..Len(P) |-> [j \in 1..W[k] |-> <<ground, P[k]>>]])

\* The tool's call has taken a step.
Moved(t) ==
    \/ pc'[t] # pc[t] \/ li'[t] # li[t] \/ gi'[t] # gi[t] \/ runs'[t] # runs[t]

\* The layer the loop of line 789 is at, and the one processed before it.
AtLayer(t) == pc[t] \in {"layer", "group"} /\ li[t] <= Len(db[t].layer_names)
CurLayer(t) == Metal(db[t].layer_names[li[t]])
LastLayer(t) == Metal(last[t])

\* C1: with len(P) = len(W), every strap layer emits exactly sum(W) groups,
\* each with nets [ground, p], where P[k] occurs in W[k] consecutive groups
\* in the order of P (P=[A,B], W=[2,1] gives [G,A],[G,A],[G,B]); the call
\* never ends on an index error of power_nets.
C1_WeightedStriping ==
    \A t \in Tools :
      LET cfg == db[t]
      IN  Len(cfg.power_nets) = Len(cfg.power_weights) =>
            /\ err[t].type # "IndexError"
            /\ \A k \in 1..Len(cfg.layer_names) :
                 (pc[t] \in {"layer", "group", "dump", "done"} /\ k < li[t]) =>
                   NetsOnLayer(output[t], cfg.layer_names[k])
                     = Pattern(cfg.ground_net, cfg.power_nets, cfg.power_weights)

\* C2, state part: a layer whose groups are being emitted lies strictly above
\* the layer processed before it, and the commands of a completed call are in
\* non-decreasing order of layer index.
C2_State ==
    \A t \in Tools :
      /\ pc[t] = "group" => CurLayer(t).index > LastLayer(t).index
      /\ pc[t] = "done" =>
           \A p, q \in DOMAIN output[t] :
             p < q => Metal(output[t][p].layer).index <= Metal(output[t][q].layer).index

\* C2, step part: a layer that is not strictly above the last one ends the
\* call with the ordering assertion, with no command emitted and no record
\* appended by that step; a failed call processes nothing more.
C2_Step ==
    \A t \in Tools :
      /\ (pc[t] = "layer" /\ AtLayer(t) /\ Moved(t)
            /\ CurLayer(t).index <= LastLayer(t).index) =>
           /\ pc'[t] = "failed"
           /\ err'[t] = Error("AssertionError", "bottom_up", "", "")
           /\ output'[t] = output[t]
           /\ _hardmacro_power_straps' = _hardmacro_power_straps
      /\ (pc[t] = "failed" /\ runs'[t] = runs[t]) =>
           (pc'[t] = "failed" /\ output'[t] = output[t] /\ li'[t] = li[t])

\* C2: every layer must lie strictly above the previously processed layer,
\* else the call fails with the ordering error before any strap group of that
\* layer is emitted or recorded and no later layer is processed; the layer
\* indices of a completed call's commands are non-decreasing.
C2_LayerOrder == []C2_State /\ [][C2_Step]_vars

\* C2 witness: a call failed on the ordering assertion at its second layer,
\* after the first layer's groups were emitted.
C2_Witness ==
    \E t \in Tools :
      /\ pc[t] = "failed" /\ err[t].msg = "bottom_up"
      /\ li[t] = 2 /\ Len(Straps(output[t])) > 0

\* C3 as stated: a layer with the direction of the layer processed before it
\* always ends the call with the error that names both layers.
C3_SameDirectionNamesBoth ==
    [][\A t \in Tools :
         (pc[t] = "layer" /\ AtLayer(t) /\ Moved(t)
            /\ CurLayer(t).direction = LastLayer(t).direction) =>
           /\ pc'[t] = "failed"
           /\ err'[t] = Error("ValueError", "same_direction",
                              LastLayer(t).name, CurLayer(t).name)
           /\ output'[t] = output[t]
           /\ _hardmacro_power_straps' = _hardmacro_power_straps]_vars

\* C3 amended: a layer with the direction of the layer processed before it
\* always ends the call with no command emitted and no record appended; the
\* error names both layers when the layer lies strictly above the last one,
\* and is the ordering assertion, which names no layer, otherwise.
C3_SameDirectionFails ==
    [][\A t \in Tools :
         (pc[t] = "layer" /\ AtLayer(t) /\ Moved(t)
            /\ CurLayer(t).direction = LastLayer(t).direction) =>
           /\ pc'[t] = "failed"
           /\ err'[t] = IF CurLayer(t).index > LastLayer(t).index
                          THEN Error("ValueError", "same_direction",
                                     LastLayer(t).name, CurLayer(t).name)
                          ELSE Error("AssertionError", "bottom_up", "", "")
           /\ output'[t] = output[t]
           /\ _hardmacro_power_straps' = _hardmacro_power_straps]_vars

\* C3 witness: two consecutive strap layers of the same direction, the second
\* above the first, ended the call with the error naming both.
C3_Witness ==
    \E t \in Tools :
      /\ pc[t] = "failed" /\ err[t].type = "ValueError"
      /\ li[t] = 2 /\ Len(Straps(output[t])) > 0
      /\ err[t].a = db[t].layer_names[1] /\ err[t].b = db[t].layer_names[2]

\* The paths of the hard macros placed in a tool's own design.
OwnPaths(t) == {db[t].hardmacros[k].path : k \in DOMAIN db[t].hardmacros}

\* The instance paths listed anywhere in a report.
ReportPaths(rep) ==
    UNION {UNION {Range(rep[k].descs[j].inst_paths) : j \in DOMAIN rep[k].descs} :
             k \in DOMAIN rep}

\* The number of messages of one kind about one subject.
NumMsgs(msgs, kind, a) ==
    Cardinality({k \in DOMAIN msgs : msgs[k].kind = kind /\ msgs[k].a = a})

\* The extent of a macro along x and y once its rotation is applied.
RotWidth(m) ==
    IF Lower(get_or_else(m.orientation, "r0")) \in {"r90", "r270"}
      THEN Val(m.height) ELSE Val(m.width)
RotHeight(m) ==
    IF Lower(get_or_else(m.orientation, "r0")) \in {"r90", "r270"}
      THEN Val(m.width) ELSE Val(m.height)

\* The rotation-adjusted rectangle lies entirely left of, right of, below or
\* above the box.
EntirelyOutside(m, bbox) ==
    \/ m.x + RotWidth(m) < bbox[1]
    \/ m.x > bbox[3]
    \/ m.y + RotHeight(m) < bbox[2]
    \/ m.y > bbox[4]

\* C4: with a bounding box, an instance whose rotation-adjusted rectangle lies
\* entirely outside the box on any side has no record in the accumulator, one
\* logged placement error per strap group evaluated for it, and no path in
\* the report.
C4_OutOfBoundsSkipped ==
    \A t \in Tools :
      LET cfg == db[t]
      IN  \A k \in DOMAIN cfg.hardmacros :
            LET m == cfg.hardmacros[k]
                evaluated == {p \in DOMAIN output[t] :
                                /\ output[t][p].kind = "straps"
                                /\ Eligible(cfg, m, Metal(output[t][p].layer))}
            IN  (/\ ~IsNone(cfg.bbox)
                 /\ ~IsNone(m.width) /\ ~IsNone(m.height)
                 /\ EntirelyOutside(m, cfg.bbox)) =>
                  /\ \A j \in DOMAIN Accumulator(t) : Accumulator(t)[j].path # m.path
                  /\ NumMsgs(log[t], "outside_bbox", m.path) = Cardinality(evaluated)
                  /\ m.path \notin ReportPaths(report[t])

\* The records of a master on its top layer, and the entries of a name.
TopRecs(acc, M) == SelectSeq(acc, LAMBDA r : r.master = M /\ r.top_layer = r.layer)
EntriesNamed(rep, name) == SelectSeq(rep, LAMBDA e : e.name = name)
VariantName(M, n) == IF n = 0 THEN M ELSE M \o "_" \o ToString(n)
ValidOrientation(r) ==
    \/ r.direction = "vertical" /\ r.orientation \in {"r0", "mx"}
    \/ r.direction = "horizontal" /\ r.orientation \in {"r0", "my"}

\* C5: for a master whose top-layer records all have a valid orientation the
\* report holds one entry per distinct offset, named M, M_1, M_2, ... without
\* gap; each lists exactly the records at its offset, the entry M holds a
\* most frequent offset, and the counts do not increase with the number.
C5_MajorityGrouping ==
    \A t \in Tools :
      pc[t] = "done" =>
        \A M \in Masters(Accumulator(t)) :
          LET recs == TopRecs(Accumulator(t), M)
              D == {recs[k].offset : k \in DOMAIN recs}
              n == Cardinality(D)
              desc(v) == EntriesNamed(report[t], VariantName(M, v))[1].descs[1]
          IN  (\A k \in DOMAIN recs : ValidOrientation(recs[k])) =>
                /\ \A v \in 0..(n - 1) :
                     Len(EntriesNamed(report[t], VariantName(M, v))) = 1
                /\ Len(EntriesNamed(report[t], VariantName(M, n))) = 0
                /\ \A v \in 0..(n - 1) :
                     /\ desc(v).offset \in D
                     /\ desc(v).inst_paths
                          = Paths(SelectSeq(recs, LAMBDA r : r.offset = desc(v).offset))
                /\ \A v, w \in 0..(n - 1) : v # w => desc(v).offset # desc(w).offset
                /\ \A v \in 0..(n - 2) :
                     Len(desc(v).inst_paths) >= Len(desc(v + 1).inst_paths)

\* C5 witness: a completed call whose report holds X with two paths and X_1
\* with one path, all of valid orientation.
C5_Witness ==
    \E t \in Tools :
      /\ pc[t] = "done"
      /\ \A k \in DOMAIN TopRecs(Accumulator(t), "X") :
           ValidOrientation(TopRecs(Accumulator(t), "X")[k])
      /\ Len(EntriesNamed(report[t], "X")) = 1
      /\ Len(EntriesNamed(report[t], "X_1")) = 1
      /\ Len(EntriesNamed(report[t], "X")[1].descs[1].inst_paths) = 2
      /\ Len(EntriesNamed(report[t], "X_1")[1].descs[1].inst_paths) = 1

\* The report holds a variant: an entry whose name is no master's.
HasVariant(t) ==
    \E k \in DOMAIN report[t] : report[t][k].name \notin Masters(Accumulator(t))

\* C6 as stated: under strict abutment checking a call whose aggregator found
\* a variant raises to its caller, so it does not return normally.
C6_StrictRaises ==
    \A t \in Tools :
      pc[t] = "done" => ~(db[t].power_straps_abutment /\ HasVariant(t))

\* C6 amended: the call returns normally either way; the aggregate error is
\* logged once when strict checking is on and a variant was found, and not at
\* all otherwise.
C6_StrictLogsOnce ==
    \A t \in Tools :
      pc[t] = "done" =>
        /\ err[t] = NoError
        /\ NumMsgs(log[t], "misaligned", "")
             = IF db[t].power_straps_abutment /\ HasVariant(t) THEN 1 ELSE 0

\* C6 witness: a call under strict checking returned with a variant reported.
C6_Witness ==
    \E t \in Tools :
      /\ pc[t] = "done" /\ db[t].power_straps_abutment /\ HasVariant(t)
      /\ NumMsgs(log[t], "misaligned", "") = 1

\* C7: when the aggregator returns the accumulator is empty, and the report
\* it wrote lists only paths of the design of its own run.
C7_AccumulatorCleared ==
    [][\A t \in Tools :
         (pc[t] = "dump" /\ pc'[t] = "done") =>
           /\ _hardmacro_power_straps' = <<>>
           /\ ReportPaths(report'[t]) \subseteq OwnPaths(t)]_vars

\* C8: a record appended by one tool instance's recorder is never seen in
\* another instance's accumulator or report.
C8_DistinctAccumulators ==
    \A t \in Tools :
      /\ \A k \in DOMAIN Accumulator(t) : Accumulator(t)[k].path \in OwnPaths(t)
      /\ ReportPaths(report[t]) \subseteq OwnPaths(t)

\* C9: the report is a function of the inputs: whatever order the masters
\* are visited in, the aggregator writes the same entries in the same order.
C9_ReportDeterministic ==
    [][\A t \in Tools :
         (pc[t] = "dump" /\ pc'[t] = "done") =>
           \A order \in Orderings(Masters(_hardmacro_power_straps)) :
             _dump_power_straps_for_hardmacros(
                 _hardmacro_power_straps, db[t].power_straps_abutment, order).report
               = report'[t]]_vars

\* The records one step appended to the accumulator, for one path.
Appended(path) ==
    {k \in (Len(_hardmacro_power_straps) + 1)..Len(_hardmacro_power_straps') :
       _hardmacro_power_straps'[k].path = path}

\* A step of the recorder for the strap group of tool t.
RecorderRan(t) == pc[t] = "group" /\ Moved(t) /\ err'[t] = NoError

\* C10 as stated: one call of the recorder appends exactly one record for
\* every instance that passes the eligibility filters and the bounds check,
\* whatever the direction of the strap layer.
C10_RecordPerInstance ==
    [][\A t \in Tools :
         RecorderRan(t) =>
           \A k \in DOMAIN db[t].hardmacros :
             LET m == db[t].hardmacros[k]
                 passes == /\ Eligible(db[t], m, CurLayer(t))
                           /\ ~BboxOob(m, Lower(get_or_else(m.orientation, "r0")),
                                       db[t].bbox)
             IN  Cardinality(Appended(m.path)) = IF passes THEN 1 ELSE 0]_vars

\* C10 amended: on a vertical or horizontal strap layer one call of the
\* recorder appends exactly one record for every instance that passes the
\* eligibility filters and the bounds check, whether or not an obstruction or
\* fit error was logged; on a layer of any other direction (redistribution)
\* it appends none.
C10_RecordPerInstanceRouted ==
    [][\A t \in Tools :
         RecorderRan(t) =>
           \A k \in DOMAIN db[t].hardmacros :
             LET m == db[t].hardmacros[k]
                 passes == /\ Eligible(db[t], m, CurLayer(t))
                           /\ ~BboxOob(m, Lower(get_or_else(m.orientation, "r0")),
                                       db[t].bbox)
                           /\ CurLayer(t).direction \in {"vertical", "horizontal"}
             IN  Cardinality(Appended(m.path)) = IF passes THEN 1 ELSE 0]_vars

\* C10 witness: an instance with an obstruction error and a fit error logged
\* has its record in the accumulator.
C10_Witness ==
    \E t \in Tools : \E k \in DOMAIN Accumulator(t) :
      LET p == Accumulator(t)[k].path
      IN  /\ \E j \in DOMAIN log[t] : log[t][j].kind = "obstructed" /\ log[t][j].a = p
          /\ \E j \in DOMAIN log[t] : log[t][j].kind = "cannot_abut" /\ log[t][j].a = p

\* The macro passes the filters the claim lists, for a strap layer of the
\* given stacking index.
PassesFilters(cfg, m, idx) ==
    /\ m.master # None
    /\ cfg.power_straps_abutment_macros # None
          => m.master[1] \in cfg.power_straps_abutment_macros[1]
    /\ m.create_physical # Some(TRUE)
    /\ m.top_layer # None
    /\ idx \in {Metal(m.top_layer[1]).index, Metal(m.top_layer[1]).index + 1}

\* The messages a step appended to the tool's log.
NewMsgs(t) == SubSeq(log'[t], Len(log[t]) + 1, Len(log'[t]))

RecorderKinds == {"outside_bbox", "obstructed", "cannot_abut", "cannot_via_down"}

\* C11, state part: every record of the accumulator is the record of an
\* instance that passes the filters for the record's strap layer.
C11_State ==
    \A t \in Tools : \A k \in DOMAIN Accumulator(t) :
       LET r == Accumulator(t)[k]
       IN  \E j \in DOMAIN db[t].hardmacros :
              LET m == db[t].hardmacros[j]
              IN  /\ m.path = r.path
                  /\ PassesFilters(db[t], m, Metal(r.layer).index)
                  /\ r.master = m.master[1]
                  /\ r.top_layer = m.top_layer[1]

\* C11, step part: a recorder call logs nothing about an instance that fails
\* a filter for the layer of the call.
C11_Step ==
    \A t \in Tools :
       pc[t] = "group" =>
         \A k \in DOMAIN NewMsgs(t) :
            NewMsgs(t)[k].kind \in RecorderKinds =>
              \E j \in DOMAIN db[t].hardmacros :
                 /\ db[t].hardmacros[j].path = NewMsgs(t)[k].a
                 /\ PassesFilters(db[t], db[t].hardmacros[j], CurLayer(t).index)

\* C11: every record of the accumulator belongs to an instance whose master
\* is set and in the allow-list when one is configured, that is not
\* physical-only, whose top layer is set and whose strap layer has index
\* top_index or top_index + 1; the other instances are skipped with no record
\* and no log message.
C11_EligibleOnly == []C11_State /\ [][C11_Step]_vars

\* C11 witness: under an allow-list and a bounding box, a finished call
\* recorded the instance of the listed master, while the instance of the
\* master that is not listed, placed beyond the box, left no record and no
\* message.
C11_Witness ==
    \E t \in Tools :
       /\ pc[t] = "done"
       /\ db[t].power_straps_abutment_macros = Some({"X"})
       /\ db[t].hardmacros[1].master = Some("Z")
       /\ db[t].hardmacros[1].top_layer = Some("M2")
       /\ db[t].hardmacros[1].x = 1024
       /\ db[t].bbox # None
       /\ \E k \in DOMAIN Accumulator(t) : Accumulator(t)[k].path = "a/m0"
       /\ \A k \in DOMAIN Accumulator(t) : Accumulator(t)[k].path # "a/m1"
       /\ \A k \in DOMAIN log[t] : log[t][k].a # "a/m1"

\* The geometry specify_power_straps_by_tracks resolves for the group the
\* tool is at.
GroupGeom(t) ==
    LET cfg == db[t]
        layer_name == cfg.layer_names[li[t]]
        layer == Metal(layer_name)
        track_pitch == _get_by_tracks_track_pitch(cfg, layer_name)
    IN  Convert(layer, SumSeq(cfg.power_weights) * track_pitch,
                cfg.track_width[layer_name], cfg.track_spacing[layer_name],
                cfg.track_start[layer_name],
                layer.offset + cfg.track_offset[layer_name]
                  + track_pitch * gi[t] * layer.pitch,
                2 * cfg.track_width[layer_name] = track_pitch,
                cfg.pattern[layer_name])

\* The tool is about to convert a group whose nets exist.
AtGroup(t) == pc[t] = "group" /\ gi[t] < Len(db[t].power_nets)

\* The density warnings a step logged.
NewDensity(t) ==
    Len(SelectSeq(NewMsgs(t), LAMBDA m : m.kind = "density"))

\* The step emitted the group's strap command.
Emitted(t) ==
    /\ Len(output'[t]) = Len(output[t]) + 1
    /\ output'[t][Len(output'[t])].kind = "straps"
    /\ output'[t][Len(output'[t])].layer = db[t].layer_names[li[t]]

\* The step appended the record of the tool's macro for the group's layer.
Forwarded(t) ==
    /\ Len(_hardmacro_power_straps') = Len(_hardmacro_power_straps) + 1
    /\ _hardmacro_power_straps'[Len(_hardmacro_power_straps')].layer
          = db[t].layer_names[li[t]]

\* The density of the group exceeds 85 percent (two nets per group).
Over85(g) == 2 * g.width * 100 > 85 * g.pitch

\* C12 as stated: the conversion of a group logs exactly one density warning
\* when nets_count * width * 100 > 85 * pitch and none otherwise, and the
\* group is then still recorded and its strap command still emitted.
C12_DensityWarned ==
    [][\A t \in Tools :
         AtGroup(t) =>
           /\ NewDensity(t) = (IF Over85(GroupGeom(t)) THEN 1 ELSE 0)
           /\ NewDensity(t) > 0 => Emitted(t) /\ Forwarded(t) /\ pc'[t] # "failed"]_vars

\* C12 amended: a conversion that passes the asserts on width and spacing
\* logs exactly one density warning when nets_count * width * 100 >
\* 85 * pitch and none otherwise, and then still records the group and emits
\* its strap command; a conversion that fails an assert logs no warning.
C12_DensityWarnedIfValid ==
    [][\A t \in Tools :
         AtGroup(t) =>
           LET g == GroupGeom(t)
           IN  /\ g.width > 0 /\ g.spacing > 0 =>
                     NewDensity(t) = (IF Over85(g) THEN 1 ELSE 0)
               /\ ~(g.width > 0 /\ g.spacing > 0) => NewDensity(t) = 0
               /\ NewDensity(t) > 0 =>
                     Emitted(t) /\ Forwarded(t) /\ pc'[t] # "failed"]_vars

\* C12 witness: a finished call that logged a density warning for a group
\* of more than 85 percent, recorded the group and emitted its command.
C12_Witness ==
    \E t \in Tools :
       /\ pc[t] = "done"
       /\ \E k \in DOMAIN log[t] : log[t][k].kind = "density"
       /\ \E k \in DOMAIN output[t] :
             2 * output[t][k].width * 100 > 85 * output[t][k].pitch
       /\ Len(_hardmacro_power_straps) > 0

\* C13: a group whose resolved width or spacing is not positive ends the
\* call with an assertion error naming the layer; the recorder is not run
\* for it (the accumulator is unchanged) and no command is emitted for it.
C13_NonPositiveFails ==
    [][\A t \in Tools :
         AtGroup(t) /\ (GroupGeom(t).width <= 0 \/ GroupGeom(t).spacing <= 0) =>
           /\ pc'[t] = "failed"
           /\ err'[t].type = "AssertionError"
           /\ err'[t].msg \in {"width", "spacing"}
           /\ err'[t].a = db[t].layer_names[li[t]]
           /\ _hardmacro_power_straps' = _hardmacro_power_straps
           /\ output'[t] = output[t]
           /\ log'[t] = log[t]]_vars

\* C13 witness: a call failed on the spacing of a mesh group on M2, with
\* nothing recorded and nothing emitted.
C13_Witness ==
    \E t \in Tools :
       /\ pc[t] = "failed"
       /\ err[t] = Error("AssertionError", "spacing", "M2", "")
       /\ db[t].pattern["M2"] = "mesh"
       /\ _hardmacro_power_straps = <<>>
       /\ output[t] = <<>>

\* The settings of the group's layer select the zero-spacing all-power
\* branch of the converter.
AllPowerZeroSpacing(t) ==
    LET cfg == db[t]
        layer_name == cfg.layer_names[li[t]]
    IN  /\ cfg.track_spacing[layer_name] = 0
        /\ cfg.pattern[layer_name] # "mesh"
        /\ 2 * cfg.track_width[layer_name] = _get_by_tracks_track_pitch(cfg, layer_name)

\* C16: a group with track_spacing 0 on an all-power layer and a pattern
\* other than mesh is emitted with width + spacing = track_width *
\* layer.pitch.
C16_OneStrapPitch ==
    [][\A t \in Tools :
         AtGroup(t) /\ AllPowerZeroSpacing(t) /\ Emitted(t) =>
           LET c == output'[t][Len(output'[t])]
               layer_name == db[t].layer_names[li[t]]
           IN  c.width + c.spacing
                 = db[t].track_width[layer_name] * Metal(layer_name).pitch]_vars

\* C16 witness: a finished call emitted an all-power zero-spacing group on
\* M6 with width 37 and spacing 3 for two tracks of pitch 20.
C16_Witness ==
    \E t \in Tools :
       /\ pc[t] = "done"
       /\ db[t].layer_names = <<"M6">>
       /\ db[t].track_spacing["M6"] = 0 /\ db[t].pattern["M6"] = "strap"
       /\ db[t].track_width["M6"] = 2 /\ db[t].power_utilization["M6"] = 100
       /\ \E k \in DOMAIN output[t] :
             /\ output[t][k].layer = "M6"
             /\ output[t][k].width = 37 /\ output[t][k].spacing = 3

\* The arguments pass the two checks the claim names.
ArgsValid(cfg) ==
    /\ Len(cfg.power_nets) = Len(cfg.power_weights)
    /\ \A k \in DOMAIN cfg.pin_layers :
          \E j \in DOMAIN cfg.layer_names : cfg.layer_names[j] = cfg.pin_layers[k]

\* C14, state part: a call whose arguments fail a check is never past its
\* start, and has emitted nothing.
C14_State ==
    \A t \in Tools :
       ~ArgsValid(db[t]) => pc[t] \in {"idle", "failed"} /\ output[t] = <<>>

\* C14, step part: the start of a call whose arguments fail a check ends the
\* call with an assertion error, no command and no new record.
C14_Step ==
    \A t \in Tools :
       runs'[t] # runs[t] /\ ~ArgsValid(db[t]) =>
         /\ pc'[t] = "failed"
         /\ err'[t].type = "AssertionError"
         /\ err'[t].msg \in {"nets_weights_length", "pin_layer_not_in_strap_layers"}
         /\ output'[t] = <<>>
         /\ _hardmacro_power_straps' = _hardmacro_power_straps

\* C14: when len(power_nets) # len(power_weights) or a pin layer is not a
\* strap layer the call fails before any command, the rail group included,
\* is emitted and before any record is appended.
C14_ArgsChecked == []C14_State /\ [][C14_Step]_vars

\* C14 witness: a call asked for the rail group failed on a pin layer that
\* is not a strap layer, with no command emitted and no record appended.
C14_Witness ==
    \E t \in Tools :
       /\ pc[t] = "failed"
       /\ db[t].generate_rail_layer
       /\ Len(db[t].power_nets) = Len(db[t].power_weights)
       /\ err[t] = Error("AssertionError", "pin_layer_not_in_strap_layers", "M3", "")
       /\ output[t] = <<>>
       /\ _hardmacro_power_straps = <<>>

\* The tool's call has ended, normally or not.
Ended(t) == runs[t] > 0 /\ pc[t] \in {"done", "failed"}

\* C15: with strict abutment off, two calls with the same arguments and
\* settings over different placement and obstruction inventories end the same
\* way with the same commands in the same order, whatever placement
\* diagnostics were logged: a call over any inventory returns normally
\* exactly when the call over the empty inventory does.
C15_InventoryIndependent ==
    Ended(1) /\ Ended(2) =>
      /\ pc[1] = pc[2]
      /\ err[1] = err[2]
      /\ output[1] = output[2]

\* C15 witness: both calls returned with the same commands on M2 and M3
\* after the first one logged a bounds, an obstruction and a fit error.
C15_Witness ==
    /\ pc[1] = "done" /\ pc[2] = "done"
    /\ Len(output[1]) >= 2 /\ output[1] = output[2]
    /\ \E k \in DOMAIN log[1] : log[1][k].kind = "outside_bbox"
    /\ \E k \in DOMAIN log[1] : log[1][k].kind = "obstructed"
    /\ \E k \in DOMAIN log[1] : log[1][k].kind = "cannot_via_down"
    /\ \A k \in DOMAIN log[2] : log[2][k].kind \notin RecorderKinds

\* The records of a master on a layer other than their top layer, in
\* accumulator order.
AboveRecs(acc, M) ==
    SelectSeq(acc, LAMBDA r : r.master = M /\ r.top_layer # r.layer)

\* The descriptor carries the strap parameters of the record.
SameStraps(d, r) ==
    /\ d.layer = r.layer /\ d.direction = r.direction
    /\ d.net_order = r.net_order /\ d.width = r.width
    /\ d.spacing = r.spacing /\ d.group_pitch = r.group_pitch

\* C17: every entry of the report holds one or two descriptors; the first
\* is the abut descriptor of the group (on the top layer, with an offset);
\* the second, the above descriptor (without an offset), is present exactly
\* when the master has a record on a layer other than its top layer, and it
\* carries the same layer, direction, net order, width, spacing and group
\* pitch in all the entries of the master.
C17_AboveDescriptor ==
    \A t \in Tools :
       pc[t] = "done" =>
         \A k \in DOMAIN report[t] :
            LET e == report[t][k]
            IN  \E M \in Masters(Accumulator(t)) : \E n \in 0..Len(Accumulator(t)) :
                  /\ e.name = VariantName(M, n)
                  /\ Len(e.descs) \in {1, 2}
                  /\ "offset" \in DOMAIN e.descs[1]
                  /\ \E r \in Range(TopRecs(Accumulator(t), M)) :
                        SameStraps(e.descs[1], r)
                  /\ Len(e.descs) = 2 <=> AboveRecs(Accumulator(t), M) # <<>>
                  /\ Len(e.descs) = 2 =>
                        /\ "offset" \notin DOMAIN e.descs[2]
                        /\ SameStraps(e.descs[2], AboveRecs(Accumulator(t), M)[1])
                        /\ e.descs[2].inst_paths = e.descs[1].inst_paths
                        /\ \A j \in DOMAIN report[t] :
                              (\E i \in 0..Len(Accumulator(t)) :
                                 report[t][j].name = VariantName(M, i)) =>
                                /\ Len(report[t][j].descs) = 2
                                /\ \A f \in {"layer", "direction", "net_order",
                                              "width", "spacing", "group_pitch"} :
                                      report[t][j].descs[2][f] = e.descs[2][f]

\* C17 witness: a report with the entries X and X_1, each with an abut
\* descriptor on M2 and an above descriptor on M3.
C17_Witness ==
    \E t \in Tools :
       /\ pc[t] = "done"
       /\ \E k, j \in DOMAIN report[t] :
             /\ report[t][k].name = "X" /\ report[t][j].name = "X_1"
             /\ Len(report[t][k].descs) = 2 /\ Len(report[t][j].descs) = 2
             /\ report[t][k].descs[1].layer = "M2"
             /\ report[t][k].descs[2].layer = "M3"
             /\ report[t][j].descs[2].layer = "M3"

\* Every layer of the call's list has had all the groups of its repeat
\* period converted and emitted.
AllGroupsEmitted(t) ==
    /\ Len(Straps(output[t])) = Len(db[t].layer_names) * SumSeq(db[t].power_weights)
    /\ \A k \in DOMAIN db[t].layer_names :
          Len(NetsOnLayer(output[t], db[t].layer_names[k])) >= SumSeq(db[t].power_weights)

\* The step ran the aggregator for the tool: it wrote the report, logged the
\* aggregator's messages or returned from the call.
Aggregated(t) ==
    \/ report'[t] # report[t]
    \/ aggregate_msg'[t] # aggregate_msg[t]
    \/ pc'[t] = "done" /\ pc[t] # "done"
    \/ \E k \in DOMAIN NewMsgs(t) :
          NewMsgs(t)[k].kind \in {"conflicting_top_layer", "same_as_top_layer",
                                  "misaligned"}

\* C18, state part: the aggregator is due only in a call that has not
\* failed and has emitted the last group of its last layer; a returned call
\* has emitted them all; a failed call holds an error.
C18_State ==
    \A t \in Tools :
       /\ pc[t] \in {"dump", "done"} => err[t] = NoError /\ AllGroupsEmitted(t)
       /\ pc[t] = "failed" => err[t] # NoError

\* C18, step part: the aggregator runs only as the step that follows the
\* last layer and returns from the call, so once per call; a failed call
\* runs no aggregator and writes no report, and a returned call runs it no
\* second time.
C18_Step ==
    \A t \in Tools :
       /\ Aggregated(t) => pc[t] = "dump" /\ pc'[t] = "done"
       /\ pc[t] = "dump" /\ pc'[t] # pc[t] => pc'[t] = "done"
       /\ pc[t] \in {"failed", "done"} /\ runs'[t] = runs[t] =>
             pc'[t] = pc[t] /\ report'[t] = report[t]

\* C18: the aggregator is invoked once per call, after the last strap group
\* of the last layer went through the recorder; a call that fails at any
\* layer invokes no aggregator and writes no report.
C18_AggregatorLast == []C18_State /\ [][C18_Step]_vars

\* C18 witness: a call over two layers returned after emitting both layers'
\* groups and writing a report with an entry.
C18_Witness ==
    \E t \in Tools :
       /\ pc[t] = "done"
       /\ Len(db[t].layer_names) = 2
       /\ AllGroupsEmitted(t)
       /\ Len(report[t]) > 0

\* C19: with generate_rail_layer the first command of a call that passed its
\* checks is the rail group, with the ground net followed by all the power
\* nets, and it is the only rail group; without it no rail group is emitted
\* and the first command is a strap group of the first strap layer.
C19_RailFirst ==
    \A t \in Tools :
       LET out == output[t]
       IN  IF db[t].generate_rail_layer
           THEN /\ pc[t] \in {"layer", "group", "dump", "done"} => Len(out) >= 1
                /\ out # <<>> =>
                      /\ out[1].kind = "rail"
                      /\ out[1].layer = std_cell_rail_layer
                      /\ out[1].nets = <<db[t].ground_net>> \o db[t].power_nets
                      /\ \A k \in 2..Len(out) : out[k].kind = "straps"
           ELSE /\ \A k \in DOMAIN out : out[k].kind = "straps"
                /\ out # <<>> => out[1].layer = db[t].layer_names[1]

\* C19 witness: a returned call whose first command is the rail group of
\* VSS, VDDA and VDDB, followed by the strap groups.
C19_Witness ==
    \E t \in Tools :
       /\ pc[t] = "done"
       /\ db[t].generate_rail_layer
       /\ Len(output[t]) >= 3
       /\ output[t][1].kind = "rail"
       /\ output[t][1].nets = <<"VSS", "VDDA", "VDDB">>
       /\ output[t][2].kind = "straps"

\* The macro's extent on the axis the straps of the layer are spread over,
\* rotation-adjusted: across vertical straps the width, or the height of a
\* rotated instance; across horizontal straps the height, or the width of a
\* rotated instance.
ExtentOnAxis(m, layer) ==
    LET rotated == Lower(get_or_else(m.orientation, "r0")) \in {"r90", "r270"}
    IN  IF layer.direction = "vertical"
          THEN IF rotated THEN m.height[1] ELSE m.width[1]
          ELSE IF rotated THEN m.width[1] ELSE m.height[1]

\* The far edge of the last strap of the group, seen from the macro's origin.
LastEdge(m, layer, g) ==
    LET origin == IF layer.direction = "vertical" THEN m.x ELSE m.y
    IN  DecMod(g.offset - origin, g.pitch) + (2 - 1) * (g.width + g.spacing) + g.width

\* The fit errors a step logged for an instance.
NewFit(t, path) ==
    Len(SelectSeq(NewMsgs(t), LAMBDA x :
          x.kind \in {"cannot_abut", "cannot_via_down"} /\ x.a = path))

\* C20: for an eligible instance that the bounds check did not skip, with
\* known width and height, on the layer being checked, the recorder logs one
\* fit error when the last strap's far edge exceeds the instance's
\* rotation-adjusted extent on the strap's axis, and none otherwise.
C20_FitError ==
    [][\A t \in Tools :
         AtGroup(t) /\ Len(log'[t]) >= Len(log[t])
           /\ GroupGeom(t).width > 0 /\ GroupGeom(t).spacing > 0 =>
           \A j \in DOMAIN db[t].hardmacros :
              LET m == db[t].hardmacros[j]
                  layer == CurLayer(t)
                  checked == Metal(m.top_layer[1]).index
                               + (IF db[t].power_straps_abutment THEN 0 ELSE 1)
              IN  (/\ PassesFilters(db[t], m, layer.index)
                   /\ \A k \in DOMAIN NewMsgs(t) :
                         ~(NewMsgs(t)[k].kind = "outside_bbox" /\ NewMsgs(t)[k].a = m.path)
                   /\ m.width # None /\ m.height # None
                   /\ layer.direction \in {"vertical", "horizontal"}
                   /\ layer.index = checked)
                  => NewFit(t, m.path)
                       = (IF LastEdge(m, layer, GroupGeom(t)) > ExtentOnAxis(m, layer)
                            THEN 1 ELSE 0)]_vars

\* The obstruction is of the power kind and on the layer.
PowerObstructionOn(o, layer_name) ==
    /\ o.obs_types # None /\ "power" \in o.obs_types[1]
    /\ o.layers # None /\ layer_name \in o.layers[1]

\* The interiors of the obstruction and of the rotation-adjusted macro
\* rectangle intersect.
InteriorsMeet(m, o) ==
    LET lo_x == IF m.x > o.x THEN m.x ELSE o.x
        hi_x == IF m.x + RotWidth(m) < o.x + o.width
                  THEN m.x + RotWidth(m) ELSE o.x + o.width
        lo_y == IF m.y > o.y THEN m.y ELSE o.y
        hi_y == IF m.y + RotHeight(m) < o.y + o.height
                  THEN m.y + RotHeight(m) ELSE o.y + o.height
    IN  lo_x < hi_x /\ lo_y < hi_y

\* The obstruction errors a step logged for an instance and an obstruction.
NewObstructed(t, path, opath) ==
    Len(SelectSeq(NewMsgs(t), LAMBDA x :
          x.kind = "obstructed" /\ x.a = path /\ x.b = opath))

\* The layer on which the instance is checked: top_index under strict
\* abutment, top_index + 1 otherwise.
CheckedIndex(cfg, m) ==
    Metal(m.top_layer[1]).index + (IF cfg.power_straps_abutment THEN 0 ELSE 1)

\* The errors the obstruction check owes an instance in one recorder call:
\* one per power obstruction on the layer that meets its rectangle, on the
\* checked layer only.
ObstructionErrorsExact(t, m) ==
    \A j \in DOMAIN db[t].obstructions :
       LET o == db[t].obstructions[j]
       IN  NewObstructed(t, m.path, o.path)
             = (IF /\ CurLayer(t).index = CheckedIndex(db[t], m)
                   /\ m.width # None /\ m.height # None
                   /\ PowerObstructionOn(o, CurLayer(t).name)
                   /\ InteriorsMeet(m, o)
                THEN 1 ELSE 0)

\* C21 as stated: the obstruction check runs on the checked layer only, logs
\* one error per power obstruction on the layer whose interior meets the
\* rotation-adjusted macro rectangle, and the instance's record is appended
\* all the same.
C21_ObstructionLogged ==
    [][\A t \in Tools :
         RecorderRan(t) =>
           \A k \in DOMAIN db[t].hardmacros :
              LET m == db[t].hardmacros[k]
              IN  PassesFilters(db[t], m, CurLayer(t).index) =>
                    /\ ObstructionErrorsExact(t, m)
                    /\ Cardinality(Appended(m.path)) = 1]_vars

\* C21 amended: as stated, except that the record is appended on a vertical
\* or horizontal strap layer only; on a layer of another direction
\* (redistribution) the errors are logged and no record is appended.
C21_ObstructionLoggedRouted ==
    [][\A t \in Tools :
         RecorderRan(t) =>
           \A k \in DOMAIN db[t].hardmacros :
              LET m == db[t].hardmacros[k]
              IN  PassesFilters(db[t], m, CurLayer(t).index) =>
                    /\ ObstructionErrorsExact(t, m)
                    /\ Cardinality(Appended(m.path))
                          = (IF CurLayer(t).direction \in {"vertical", "horizontal"}
                               THEN 1 ELSE 0)]_vars

\* C21 witness: a rotated instance on M3, the checked layer, with one error
\* for each of the two power obstructions it overlaps, and its record.
C21_Witness ==
    \E t \in Tools :
       /\ db[t].hardmacros[1].orientation = Some("R90")
       /\ NumMsgs(log[t], "obstructed", "a/m1") = 2
       /\ \E k \in DOMAIN log[t] : log[t][k].b = "a/obs_high"
       /\ \E k \in DOMAIN Accumulator(t) :
             Accumulator(t)[k].path = "a/m1" /\ Accumulator(t)[k].layer = "M3"

\* The strap commands emitted on a layer, in emission order.
OnLayer(out, layer_name) ==
    SelectSeq(Straps(out), LAMBDA c : c.layer = layer_name)

\* The loop of the call has gone past the k-th layer of the list.
LayerFinished(t, k) ==
    \/ pc[t] \in {"dump", "done"}
    \/ pc[t] \in {"layer", "group"} /\ li[t] > k

MeshGroup(t) == AtGroup(t) /\ db[t].pattern[db[t].layer_names[li[t]]] = "mesh"

\* The width the TWT solver gives the layer's track_width.
TwtWidth(t) ==
    get_width_spacing_start_twt(CurLayer(t),
                                db[t].track_width[db[t].layer_names[li[t]]])[1]

\* The pitch of the group in length units.
GroupPitchLength(t) ==
    SumSeq(db[t].power_weights)
      * _get_by_tracks_track_pitch(db[t], db[t].layer_names[li[t]])
      * CurLayer(t).pitch

\* C23: under the mesh pattern the strap has the TWT solver's width whatever
\* track_spacing is configured, an emitted group has width + spacing =
\* group_pitch / 2, and a width of group_pitch / 2 or more ends the call on
\* the assert on the spacing.
C23_MeshSizing ==
    [][\A t \in Tools :
         MeshGroup(t) /\ TwtWidth(t) > 0 =>
           IF 2 * TwtWidth(t) >= GroupPitchLength(t)
           THEN /\ pc'[t] = "failed"
                /\ err'[t] = Error("AssertionError", "spacing",
                                    db[t].layer_names[li[t]], "")
                /\ output'[t] = output[t]
           ELSE /\ Emitted(t)
                /\ LET c == output'[t][Len(output'[t])]
                   IN  /\ c.width = TwtWidth(t)
                       /\ 2 * (c.width + c.spacing) = c.pitch
                       /\ c.pitch = GroupPitchLength(t)]_vars

\* C23 witness: a returned call emitted a mesh group on M2 with a configured
\* track_spacing of 0, the TWT width 36 and the spacing 28 in a pitch of 128.
C23_Witness ==
    \E t \in Tools :
       /\ pc[t] = "done"
       /\ db[t].pattern["M2"] = "mesh" /\ db[t].track_spacing["M2"] = 0
       /\ db[t].track_width["M2"] = 2 /\ db[t].power_utilization["M2"] = 50
       /\ Len(db[t].power_weights) = 1
       /\ \E k \in DOMAIN output[t] :
             /\ output[t][k].layer = "M2"
             /\ output[t][k].width = 36 /\ output[t][k].spacing = 28
             /\ output[t][k].pitch = 128

\* The first position of a layer name in the call's list.
PositionOf(t, layer_name) ==
    CHOOSE k \in DOMAIN db[t].layer_names :
       /\ db[t].layer_names[k] = layer_name
       /\ \A j \in 1..(k - 1) : db[t].layer_names[j] # layer_name

\* C24, state part: a strap group of the k-th layer has as its bottom-via
\* layer the configured one for k = 1 and the (k-1)-th layer otherwise.
C24_State ==
    \A t \in Tools : \A j \in DOMAIN Straps(output[t]) :
       LET c == Straps(output[t])[j]
           k == PositionOf(t, c.layer)
       IN  /\ \E i \in DOMAIN db[t].layer_names : db[t].layer_names[i] = c.layer
           /\ c.bottom_via = IF k = 1 THEN db[t].bottom_via_layer
                                      ELSE db[t].layer_names[k - 1]

\* C24, step part: within a call the last layer changes only to the layer
\* whose last group the step emitted, all sum(weights) groups being out.
C24_Step ==
    \A t \in Tools :
       last'[t] # last[t] /\ runs'[t] = runs[t] =>
         /\ pc[t] = "group"
         /\ last'[t] = db[t].layer_names[li[t]]
         /\ li'[t] = li[t] + 1
         /\ Emitted(t)
         /\ Len(OnLayer(output'[t], last'[t])) = SumSeq(db[t].power_weights)

\* C24: every strap group of the k-th layer is given the layer processed
\* just before it as its bottom-via layer, and the last layer advances only
\* once all sum(weights) groups of a layer are emitted.
C24_BottomVia == []C24_State /\ [][C24_Step]_vars

\* C24 witness: a returned call over M2 and M3 from the bottom-via layer M1
\* with two groups per layer: those of M2 via down to M1, those of M3 to M2.
C24_Witness ==
    \E t \in Tools :
       /\ pc[t] = "done"
       /\ db[t].layer_names = <<"M2", "M3">> /\ db[t].bottom_via_layer = "M1"
       /\ Len(OnLayer(output[t], "M2")) = 2 /\ Len(OnLayer(output[t], "M3")) = 2
       /\ \A j \in 1..2 : /\ OnLayer(output[t], "M2")[j].bottom_via = "M1"
                            /\ OnLayer(output[t], "M3")[j].bottom_via = "M2"

\* The paths the aggregate message names under a master.
NamedUnder(msg, M) ==
    UNION {Range(msg[k].paths) : k \in {j \in DOMAIN msg : msg[j].master = M}}

\* The paths of the abut descriptors of a master's entries with a variant
\* suffix, and of its entry without one.
SuffixedPaths(rep, M, bound) ==
    UNION {Range(rep[k].descs[1].inst_paths) :
             k \in {j \in DOMAIN rep :
                      \E n \in 1..bound : rep[j].name = VariantName(M, n)}}
UnsuffixedPaths(rep, M) ==
    UNION {Range(rep[k].descs[1].inst_paths) :
             k \in {j \in DOMAIN rep : rep[j].name = M}}

\* C25: the aggregate message names, under each master, exactly the paths
\* of the master's entries with a variant suffix, names no path of an entry
\* without a suffix, and is logged at most once per aggregator call.
C25_MisalignedPaths ==
    \A t \in Tools :
       pc[t] = "done" /\ db[t].power_straps_abutment =>
         /\ NumMsgs(log[t], "misaligned", "") <= 1
         /\ \A M \in Masters(Accumulator(t)) :
               /\ NamedUnder(aggregate_msg[t], M)
                     = SuffixedPaths(report[t], M, Len(Accumulator(t)))
               /\ NamedUnder(aggregate_msg[t], M) \cap UnsuffixedPaths(report[t], M) = {}

\* The entries of a master in a report: the one of its name and the ones of
\* its variants.
EntriesOf(rep, M, bound) ==
    SelectSeq(rep, LAMBDA e : \E n \in 0..bound : e.name = VariantName(M, n))
GroupSizes(entries) == [k \in 1..Len(entries) |-> Len(entries[k].descs[1].inst_paths)]

\* C26: the grouping loop of a master ends: every iteration (one entry of
\* the report) takes at least one record out of the master's top-layer
\* records, the iterations take all of them, and so the master has at most
\* as many entries as top-layer records.
C26_LoopBounded ==
    \A t \in Tools :
      pc[t] = "done" =>
        \A M \in Masters(Accumulator(t)) :
          LET entries == EntriesOf(report[t], M, Len(Accumulator(t)))
              recs == TopRecs(Accumulator(t), M)
          IN  /\ \A k \in DOMAIN entries : GroupSizes(entries)[k] >= 1
              /\ SumSeq(GroupSizes(entries)) = Len(recs)
              /\ Len(entries) <= Len(recs)

\* C26 witness: a completed call where a master with four top-layer records
\* got two entries, each iteration having taken two records.
C26_Witness ==
    \E t \in Tools :
      /\ pc[t] = "done"
      /\ Len(TopRecs(Accumulator(t), "X")) = 4
      /\ GroupSizes(EntriesOf(report[t], "X", Len(Accumulator(t)))) = <<2, 2>>

\* How many top-layer records of a master have a path, an offset and an
\* orientation, and how many places of the abut descriptors of the master's
\* entries list that path and orientation under that offset.
RecordsLike(recs, path, offset, orientation) ==
    Cardinality({k \in DOMAIN recs : /\ recs[k].path = path
                                      /\ recs[k].offset = offset
                                      /\ recs[k].orientation = orientation})
PlacesLike(entries, path, offset, orientation) ==
    SumSeq([e \in 1..Len(entries) |->
              Cardinality({j \in DOMAIN entries[e].descs[1].inst_paths :
                             /\ entries[e].descs[1].inst_paths[j] = path
                             /\ entries[e].descs[1].offset = offset
                             /\ entries[e].descs[1].inst_orientations[j] = orientation})])
DescValid(d) == {j \in DOMAIN d.inst_orientations : d.inst_orientations[j] \in valid_orients(d.direction)}

\* C27: the abut descriptors of a master's entries partition its top-layer
\* records: every record is listed in one place and no place lists anything
\* else, a place lies in a descriptor of the record's offset, no two
\* descriptors of a master that hold records of one kind of orientation
\* have the same offset, and no descriptor mixes valid and invalid
\* orientations.
C27_Partition ==
    \A t \in Tools :
      pc[t] = "done" =>
        \A M \in Masters(Accumulator(t)) :
          LET entries == EntriesOf(report[t], M, Len(Accumulator(t)))
              recs == TopRecs(Accumulator(t), M)
              triples == {<<recs[k].path, recs[k].offset, recs[k].orientation>> : k \in DOMAIN recs}
                           \cup UNION {{<<entries[e].descs[1].inst_paths[j], entries[e].descs[1].offset, entries[e].descs[1].inst_orientations[j]>> : j \in DOMAIN entries[e].descs[1].inst_paths} : e \in DOMAIN entries}
          IN  /\ \A x \in triples :
                    PlacesLike(entries, x[1], x[2], x[3]) = RecordsLike(recs, x[1], x[2], x[3])
              /\ \A e \in DOMAIN entries :
                    DescValid(entries[e].descs[1]) \in {{}, DOMAIN entries[e].descs[1].inst_orientations}
              /\ \A e, f \in DOMAIN entries :
                    /\ e # f
                    /\ entries[e].descs[1].offset = entries[f].descs[1].offset
                    => (DescValid(entries[e].descs[1]) = {}) # (DescValid(entries[f].descs[1]) = {})

\* C27 witness: a completed call where a master has top-layer records of
\* valid and of invalid orientation, and its entries hold a descriptor of
\* each kind.
C27_Witness ==
    \E t \in Tools :
      /\ pc[t] = "done"
      /\ \E k, j \in DOMAIN TopRecs(Accumulator(t), "X") :
            /\ ValidOrientation(TopRecs(Accumulator(t), "X")[k])
            /\ ~ValidOrientation(TopRecs(Accumulator(t), "X")[j])
      /\ \E e, f \in DOMAIN EntriesOf(report[t], "X", Len(Accumulator(t))) :
            /\ DescValid(EntriesOf(report[t], "X", Len(Accumulator(t)))[e].descs[1]) # {}
            /\ DescValid(EntriesOf(report[t], "X", Len(Accumulator(t)))[f].descs[1]) = {}

\* C28: after a completed call every master with a record in the
\* accumulator has at least one entry in the report, also a master whose
\* records are all on the layer above its top layer.
C28_EveryMasterReported ==
    \A t \in Tools :
      pc[t] = "done" =>
        \A M \in Masters(Accumulator(t)) :
          Len(EntriesOf(report[t], M, Len(Accumulator(t)))) >= 1

\* C29: every top-layer record of an orientation invalid for the layer's
\* direction is listed in no entry of the master's plain name (so only in
\* entries with a variant suffix) and, under strict abutment, is named among
\* the misaligned instances, whether or not its master has a record of valid
\* orientation.
C29_BadOrientationVariant ==
    \A t \in Tools :
      pc[t] = "done" =>
        \A M \in Masters(Accumulator(t)) :
          LET recs == TopRecs(Accumulator(t), M)
          IN  \A k \in DOMAIN recs :
                ~ValidOrientation(recs[k]) =>
                  /\ PlacesLike(EntriesNamed(report[t], M), recs[k].path,
                                recs[k].offset, recs[k].orientation) = 0
                  /\ db[t].power_straps_abutment
                       => recs[k].path \in NamedUnder(aggregate_msg[t], M)

\* The layer _power_straps_check_index is called with in the step a tool is
\* about to take: the rail layer in Start, the strap layer in GroupStep.
CheckedLayer(t) ==
    IF pc[t] = "group" THEN db[t].layer_names[li[t]] ELSE std_cell_rail_layer
IndexFailure(e) == e.type = "AssertionError" /\ e.msg = "bottom_to_top"
StepOf(t) == pc'[t] # pc[t] \/ gi'[t] # gi[t] \/ runs'[t] # runs[t]

\* The first layer a generation of the tool is checked with.
FirstChecked(cfg) ==
    IF cfg.generate_rail_layer THEN std_cell_rail_layer ELSE cfg.layer_names[1]

\* C30, steps: _power_straps_last_index never decreases; a step whose check
\* fails was called with a layer index below it and leaves it unchanged; a
\* converter step that succeeds was called with an equal or higher index and
\* sets it to that index; nothing else changes it, and a new generation does
\* not reset it.
C30_Step ==
    \A t \in Tools :
      /\ _power_straps_last_index'[t] >= _power_straps_last_index[t]
      /\ StepOf(t) /\ IndexFailure(err'[t]) =>
            /\ Metal(CheckedLayer(t)).index < _power_straps_last_index[t]
            /\ err'[t].a = CheckedLayer(t)
            /\ _power_straps_last_index'[t] = _power_straps_last_index[t]
      /\ StepOf(t) /\ pc[t] = "group" /\ err'[t] = NoError =>
            /\ Metal(CheckedLayer(t)).index >= _power_straps_last_index[t]
            /\ _power_straps_last_index'[t] = Metal(CheckedLayer(t)).index
      /\ _power_straps_last_index'[t] # _power_straps_last_index[t] =>
            _power_straps_last_index'[t] = Metal(CheckedLayer(t)).index
      /\ pc[t] \in {"done", "failed"} /\ ~db[t].generate_rail_layer =>
            _power_straps_last_index'[t] = _power_straps_last_index[t]

\* C30, states: a generation after the first whose first checked layer lies
\* below _power_straps_last_index emits no strap command, never reaches the
\* aggregator and, once it has failed, has failed the check of the index.
C30_State ==
    \A t \in Tools :
      /\ runs[t] >= 2
      /\ Metal(FirstChecked(db[t])).index < _power_straps_last_index[t]
      => /\ pc[t] \in {"layer", "group", "failed"}
         /\ Straps(output[t]) = <<>>
         /\ pc[t] = "failed" => IndexFailure(err[t])

C30_IndexNeverDecreases == [][C30_Step]_vars /\ []C30_State

\* C30 witness: a second generation of a tool without the rail group, after
\* a first one that went up to M3, has failed the check of its first strap
\* layer M2, and the index is still the one of M3.
C30_Witness ==
    \E t \in Tools :
      /\ runs[t] = 2
      /\ ~db[t].generate_rail_layer
      /\ pc[t] = "failed"
      /\ IndexFailure(err[t])
      /\ err[t].a = "M2"
      /\ _power_straps_last_index[t] = Metal("M3").index
      /\ Len(report[t]) > 0
====
